-------------------------------- MODULE Node --------------------------------
(***************************************************************************)
(* The node of node/: HTTP handlers that run concurrently, serialise on    *)
(* writeMu, change the VM's memory and then the SQLite database, and undo  *)
(* the memory when the database refuses; the process that may crash at any *)
(* step; and restore(), which rebuilds the memory from the database.       *)
(*                                                                         *)
(* A thread is a request being served.  What a contract call does to the   *)
(* VM stands for the effects the engine of module NitroVM can have, each   *)
(* kind at most once per call: one token moves between two accounts, one   *)
(* contract appears, storage is written, and everything that changed is in *)
(* touched.  A write to contract storage is the pair of sender and nonce   *)
(* of the transaction that made it.  The database's failures (Begin, Exec, *)
(* Commit) are nondeterministic.                                           *)
(***************************************************************************)
EXTENDS Integers, Sequences, FiniteSets

CONSTANTS
    Threads,         \* requests served at the same time
    Users,           \* accounts that sign transactions
    Codes,           \* WASM codes a store transaction may carry
    MaxInstances,    \* bound on contracts
    MaxNonce,        \* bound on the nonces of signed transactions
    MaxOps,          \* bound: no request arrives after that many commits
    Fees,            \* values of gas used times gas price
    Kinds,           \* kinds of request that arrive
    Devnet,          \* the network serves /faucet
    FaucetAmounts,   \* amounts a faucet request may ask for
    GenesisBalance,  \* balance of every account in the first database
    Nil              \* nobody, nothing: no holder, snapshot, transaction, request

ASSUME NodeAssumption ==
    /\ Users \cap Int = {}
    /\ Nil \notin Threads \cup Codes
    /\ MaxInstances \in Nat
    /\ MaxNonce \in Nat
    /\ MaxOps \in Nat
    /\ Fees \subseteq Nat
    /\ FaucetAmounts \subseteq Nat
    /\ GenesisBalance \in Nat
    /\ Devnet \in BOOLEAN
    /\ IsFiniteSet(Codes)
    /\ Kinds \subseteq {"execute", "instantiate", "store", "simulate", "faucet"}
    /\ "faucet" \in Kinds => Devnet

Contract == 1..MaxInstances
Addr == Users \cup Contract
TxIds == Users \X Int   \* the storage stamps: who wrote, at which nonce
NoNonce == -1           \* the nonce of a simulated call

\* The VM's memory.  A code that is not stored has sequence number 0.
VMState == [bal : [Addr -> Nat], nonce : [Users -> Nat],
            contracts : SUBSET Contract, instanceCount : Nat,
            touched : SUBSET Addr, store : SUBSET TxIds,
            seqByCode : [Codes -> Nat], codeSeq : Nat, opSeq : Nat]

\* The tables of the metadata database.  codes gives the row number of a
\* code, 0 when it has no row; maxSeq is the largest number in code_seqs.
Tables == [bal : [Addr -> Nat], nonce : [Users -> Nat],
           contracts : SUBSET Contract, instanceCount : Nat,
           store : SUBSET TxIds, codes : [Codes -> Nat], lastRow : Nat,
           maxSeq : Nat, opSeq : Nat, events : SUBSET (Nat \X TxIds)]

Request == [kind : Kinds, sender : Users, nonce : Nat,
            code : Codes \cup {Nil}, amount : Nat]

VARIABLES
    mem,        \* NitroVM's mutable state
    db,         \* the database as committed
    dbtx,       \* the tables as the open SQL transaction sees them, or Nil
    writeMu,    \* the thread that holds writeMu, or Nil
    pc,         \* what each thread does next
    req,        \* the request each thread serves
    loc,        \* each handler's local variables
    committed   \* history: the transactions committed, in order

vars == <<mem, db, dbtx, writeMu, pc, req, loc, committed>>

NoLocals == [snap |-> Nil, touched |-> {}, fee |-> 0, nonce |-> 0]

-----------------------------------------------------------------------------
(***************************************************************************)
(* The VM as the handlers use it.                                          *)
(***************************************************************************)
Move(b, from, to, amt) == [[b EXCEPT ![from] = @ - amt] EXCEPT ![to] = @ + amt]

Transfer(v, from, to, amt) ==
    [v EXCEPT !.bal = Move(v.bal, from, to, amt),
              !.touched = @ \cup {from, to}]

Create(v, n) ==
    [v EXCEPT !.contracts = @ \cup {c \in Contract :
                                    c > v.instanceCount /\ c <= v.instanceCount + n},
              !.instanceCount = @ + n]

Write(v, stamp) == [v EXCEPT !.store = @ \cup {stamp}]

\* The states a contract call with n new instances may leave behind; bound:
\* it moves at most one token.
CallEffects(v, n, stamp) ==
    {Write(Create(v, n), stamp)}
    \cup {Write(Create(Transfer(v, from, to, 1), n), stamp) :
            from \in {a \in Addr : v.bal[a] >= 1}, to \in Addr}

IncrementNonce(v, sender) ==
    [v EXCEPT !.nonce[sender] = @ + 1, !.touched = @ \cup {sender}]

\* Mutant: a code that is stored again gets a new number.
StoreCodeAlwaysNumbers(v, code) ==
    [v EXCEPT !.codeSeq = @ + 1, !.seqByCode[code] = v.codeSeq + 1]

\* StoreCode gives a code it has not seen the next sequence number.
StoreCode(v, code) ==
    IF v.seqByCode[code] # 0 THEN v
    ELSE [v EXCEPT !.codeSeq = @ + 1, !.seqByCode[code] = v.codeSeq + 1]

\* Amount.Sub refuses a fee above the balance.  Mutant: off by one.
CanPayAlmost(v, sender, fee) == fee <= v.bal[sender] + 1
CanPay(v, sender, fee) == fee <= v.bal[sender]

DeductGasFee(v, sender, fee) ==
    [v EXCEPT !.bal[sender] = @ - fee, !.touched = @ \cup {sender}]

SetBalance(v, addr, amount) ==
    [v EXCEPT !.bal[addr] = amount, !.touched = @ \cup {addr}]

TickOp(v) == [v EXCEPT !.opSeq = @ + 1]

-----------------------------------------------------------------------------
(***************************************************************************)
(* The database as the handlers use it.                                    *)
(***************************************************************************)
\* persistBalance for every address of addrs: the row has balance and nonce.
PersistAccounts(d, v, addrs) ==
    [d EXCEPT !.bal = [a \in Addr |-> IF a \in addrs THEN v.bal[a] ELSE d.bal[a]],
              !.nonce = [u \in Users |-> IF u \in addrs THEN v.nonce[u] ELSE d.nonce[u]]]

\* INSERT OR REPLACE gives the code a new row after all others; INSERT OR
\* IGNORE records a sequence number that is not on record.
PersistCode(d, v, code) ==
    [d EXCEPT !.codes[code] = d.lastRow + 1,
              !.lastRow = @ + 1,
              !.maxSeq = IF v.seqByCode[code] > @ THEN v.seqByCode[code] ELSE @]

\* Mutants: the storage is not flushed; the instance counter is not written;
\* the events carry the number the next operation will get.
PersistCallNoFlush(d, v, stamp) ==
    [d EXCEPT !.contracts = @ \cup v.contracts, !.instanceCount = v.instanceCount,
              !.events = @ \cup {<<v.opSeq, stamp>>}]
PersistCallNoCount(d, v, stamp) ==
    [d EXCEPT !.contracts = @ \cup v.contracts,
              !.events = @ \cup {<<v.opSeq, stamp>>}, !.store = v.store]
PersistCallLateEvents(d, v, stamp) ==
    [d EXCEPT !.contracts = @ \cup v.contracts, !.instanceCount = v.instanceCount,
              !.events = @ \cup {<<v.opSeq + 1, stamp>>}, !.store = v.store]

\* The contract rows, the instance counter, the events and the full storage.
PersistCall(d, v, stamp) ==
    [d EXCEPT !.contracts = @ \cup v.contracts,
              !.instanceCount = v.instanceCount,
              !.events = @ \cup {<<v.opSeq, stamp>>},
              !.store = v.store]

Rows(d) == {c \in Codes : d.codes[c] # 0}
RowsUpTo(d, c) == {e \in Rows(d) : d.codes[e] <= d.codes[c]}

\* restore(): the codes are stored again in row order, the counter is set to
\* the largest sequence number on record, the rest is read back.
Restored(d) ==
    [bal           |-> d.bal,
     nonce         |-> d.nonce,
     contracts     |-> d.contracts,
     instanceCount |-> d.instanceCount,
     touched       |-> {},
     store         |-> d.store,
     seqByCode     |-> [c \in Codes |-> IF c \in Rows(d)
                                       THEN Cardinality(RowsUpTo(d, c)) ELSE 0],
     codeSeq       |-> IF d.maxSeq > 0 THEN d.maxSeq
                       ELSE Cardinality(Rows(d)),
     opSeq         |-> d.opSeq]

-----------------------------------------------------------------------------
(***************************************************************************)
(* Requests.  parseSigned has accepted a signed one before it waits for    *)
(* the lock; a refused one changes nothing.  Any request may arrive any    *)
(* number of times.                                                        *)
(***************************************************************************)
Signed(t) == req[t].kind \in {"execute", "instantiate", "store"}
Call(t) == req[t].kind \in {"execute", "instantiate"}
TxId(t) == <<req[t].sender, req[t].nonce>>

Goto(t, label) == pc' = [pc EXCEPT ![t] = label]

\* The handler returns.
Forget(t) ==
    /\ loc' = [loc EXCEPT ![t] = NoLocals]
    /\ req' = [req EXCEPT ![t] = Nil]
    /\ Goto(t, "idle")

Receive(t) ==
    /\ pc[t] = "idle" /\ Len(committed) < MaxOps
    /\ \E kind \in Kinds \ {"faucet"}, u \in Users, n \in 0..MaxNonce - 1,
         code \in Codes \cup {Nil} :
        /\ kind = "store" <=> code # Nil
        /\ kind = "simulate" => n = 0
        /\ req' = [req EXCEPT ![t] = [kind |-> kind, sender |-> u, nonce |-> n,
                                      code |-> code, amount |-> 0]]
    /\ Goto(t, "lock")
    /\ UNCHANGED <<mem, db, dbtx, writeMu, loc, committed>>

Lock(t) ==
    /\ pc[t] = "lock" /\ writeMu = Nil
    /\ writeMu' = t
    /\ loc' = [loc EXCEPT ![t].snap = mem]
    /\ Goto(t, "call")
    /\ UNCHANGED <<mem, db, dbtx, req, committed>>

\* The response is written and writeMu is released.
Reply(t) ==
    /\ pc[t] = "reply"
    /\ writeMu' = Nil
    /\ Forget(t)
    /\ UNCHANGED <<mem, db, dbtx, committed>>

-----------------------------------------------------------------------------
(***************************************************************************)
(* The call into the VM.                                                   *)
(***************************************************************************)
\* Mutant: any nonce up to the current one is accepted.
ValidateNonceOld(t) == req[t].nonce <= mem.nonce[req[t].sender]
ValidateNonce(t) == req[t].nonce = mem.nonce[req[t].sender]

\* Execute or Instantiate succeeds; an instantiate makes a contract.
CallSucceeds(t) ==
    /\ pc[t] = "call" /\ Call(t) /\ ValidateNonce(t)
    /\ \E n \in 0..1, fee \in Fees :
        /\ req[t].kind = "instantiate" => n = 1
        /\ mem.instanceCount + n <= MaxInstances
        /\ \E v \in CallEffects(mem, n, TxId(t)) :
            mem' = IncrementNonce(v, req[t].sender)
        /\ loc' = [loc EXCEPT ![t].fee = fee]
    /\ Goto(t, "begin")
    /\ UNCHANGED <<db, dbtx, writeMu, req, committed>>

\* It fails, having changed whatever it had changed until then.
CallFails(t) ==
    /\ pc[t] = "call" /\ Call(t) /\ ValidateNonce(t)
    /\ \E n \in 0..1, fee \in Fees :
        /\ mem.instanceCount + n <= MaxInstances
        /\ mem' \in CallEffects(mem, n, TxId(t))
        /\ loc' = [loc EXCEPT ![t].fee = fee]
    /\ Goto(t, "failed")
    /\ UNCHANGED <<db, dbtx, writeMu, req, committed>>

\* StoreCode succeeds.
StoreSucceeds(t) ==
    /\ pc[t] = "call" /\ req[t].kind = "store" /\ ValidateNonce(t)
    /\ mem' = IncrementNonce(StoreCode(mem, req[t].code), req[t].sender)
    /\ \E fee \in Fees : loc' = [loc EXCEPT ![t].fee = fee]
    /\ Goto(t, "begin")
    /\ UNCHANGED <<db, dbtx, writeMu, req, committed>>

\* The nonce is not the sender's, or the code does not compile: no gas used.
CallRefused(t) ==
    /\ pc[t] = "call" /\ Signed(t)
    /\ ValidateNonce(t) => req[t].kind = "store"
    /\ Goto(t, "failed")
    /\ UNCHANGED <<mem, db, dbtx, writeMu, req, loc, committed>>

\* handleSimulate runs the call, without a nonce, in the live VM.
CallSimulated(t) ==
    /\ pc[t] = "call" /\ req[t].kind = "simulate"
    /\ \E n \in 0..1 :
        /\ mem.instanceCount + n <= MaxInstances
        /\ mem' \in CallEffects(mem, n, <<req[t].sender, NoNonce>>)
    /\ Goto(t, "failed")
    /\ UNCHANGED <<db, dbtx, writeMu, req, loc, committed>>

-----------------------------------------------------------------------------
(***************************************************************************)
(* A call that failed, or was simulated: the memory goes back, and the gas *)
(* a failed call used is paid for.  handleStore charges nothing.           *)
(***************************************************************************)
\* Mutant: a call refused without gas used returns early and keeps writeMu.
RestoreFailedKeepsLock(t) ==
    /\ pc[t] = "failed"
    /\ mem' = loc[t].snap
    /\ IF Call(t) /\ loc[t].fee > 0
       THEN Goto(t, "charge") /\ UNCHANGED <<loc, req>>
       ELSE Forget(t)
    /\ UNCHANGED <<db, dbtx, writeMu, committed>>

RestoreFailed(t) ==
    /\ pc[t] = "failed"
    /\ mem' = loc[t].snap
    /\ Goto(t, IF Call(t) /\ loc[t].fee > 0 THEN "charge" ELSE "reply")
    /\ UNCHANGED <<db, dbtx, writeMu, req, loc, committed>>

ChargeFailed(t) ==
    /\ pc[t] = "charge"
    /\ IF CanPay(mem, req[t].sender, loc[t].fee)
       THEN /\ mem' = DeductGasFee(mem, req[t].sender, loc[t].fee)
            /\ Goto(t, "persist")
       ELSE /\ UNCHANGED mem
            /\ Goto(t, "reply")
    /\ UNCHANGED <<db, dbtx, writeMu, req, loc, committed>>

\* The row is written outside any transaction; an error is ignored.
PersistFailed(t) ==
    /\ pc[t] = "persist"
    /\ \/ db' = PersistAccounts(db, mem, {req[t].sender})
       \/ UNCHANGED db
    /\ Goto(t, "reply")
    /\ UNCHANGED <<mem, dbtx, writeMu, req, loc, committed>>

-----------------------------------------------------------------------------
(***************************************************************************)
(* A call that succeeded: the SQL transaction.                             *)
(***************************************************************************)
\* What the open transaction sees; SQLite locks at its first write.
View == IF dbtx = Nil THEN db ELSE dbtx

\* Mutant: only the sender is collected.
BeginSenderOnly(t) ==
    /\ pc[t] = "begin"
    /\ loc' = [loc EXCEPT ![t].touched = {req[t].sender}]
    /\ mem' = [mem EXCEPT !.touched = {}]
    /\ Goto(t, "fee")
    /\ UNCHANGED <<db, dbtx, writeMu, req, committed>>

\* handleExecute and handleInstantiate collect the touched accounts.
Begin(t) ==
    /\ pc[t] = "begin"
    /\ IF Call(t)
       THEN /\ loc' = [loc EXCEPT ![t].touched = mem.touched]
            /\ mem' = [mem EXCEPT !.touched = {}]
       ELSE UNCHANGED <<mem, loc>>
    /\ Goto(t, "fee")
    /\ UNCHANGED <<db, dbtx, writeMu, req, committed>>

Fee(t) ==
    /\ pc[t] = "fee"
    /\ CanPay(mem, req[t].sender, loc[t].fee)
    /\ IF loc[t].fee > 0
       THEN /\ mem' = DeductGasFee(mem, req[t].sender, loc[t].fee)
            /\ dbtx' = PersistAccounts(View, mem', {req[t].sender})
       ELSE UNCHANGED <<mem, dbtx>>
    /\ Goto(t, "write")
    /\ UNCHANGED <<db, writeMu, req, loc, committed>>

WriteTables(t) ==
    /\ pc[t] = "write"
    /\ dbtx' = IF Call(t)
               THEN PersistCall(PersistAccounts(View, mem, loc[t].touched),
                                mem, TxId(t))
               ELSE PersistAccounts(PersistCode(View, mem, req[t].code),
                                    mem, {req[t].sender})
    /\ Goto(t, "tick")
    /\ UNCHANGED <<mem, db, writeMu, req, loc, committed>>

Tick(t) ==
    /\ pc[t] = "tick"
    /\ mem' = TickOp(mem)
    /\ dbtx' = [dbtx EXCEPT !.opSeq = mem'.opSeq]
    /\ Goto(t, "commit")
    /\ UNCHANGED <<db, writeMu, req, loc, committed>>

\* The response reports the code's sequence number.
Record(t) ==
    [kind |-> req[t].kind, id |-> TxId(t), code |-> req[t].code,
     seq |-> IF req[t].code = Nil THEN 0 ELSE mem.seqByCode[req[t].code]]

Commit(t) ==
    /\ pc[t] = "commit"
    /\ db' = dbtx
    /\ dbtx' = Nil
    /\ committed' = Append(committed, Record(t))
    /\ Goto(t, "reply")
    /\ UNCHANGED <<mem, writeMu, req, loc>>

\* Mutant: a commit that fails leaves the memory ahead of the database.
AbortKeepsMemory(t) ==
    /\ pc[t] \in {"begin", "fee", "write", "tick", "commit"}
    /\ mem' = IF pc[t] = "commit" THEN mem ELSE loc[t].snap
    /\ dbtx' = Nil
    /\ Goto(t, "reply")
    /\ UNCHANGED <<db, writeMu, req, loc, committed>>

\* A database error at any step, or a fee the sender cannot pay: the SQL
\* transaction and the memory are rolled back.
Abort(t) ==
    /\ pc[t] \in {"begin", "fee", "write", "tick", "commit"}
    /\ mem' = loc[t].snap
    /\ dbtx' = Nil
    /\ Goto(t, "reply")
    /\ UNCHANGED <<db, writeMu, req, loc, committed>>

-----------------------------------------------------------------------------
(***************************************************************************)
(* handleFaucet does not take writeMu: it sets the balance, reads the      *)
(* nonce, and writes a row of both, waiting for a transaction that holds   *)
(* the database or giving up when it holds it for too long.                *)
(***************************************************************************)
FaucetSet(t) ==
    /\ pc[t] = "idle" /\ "faucet" \in Kinds
    /\ \E u \in Users, amount \in FaucetAmounts :
        /\ req' = [req EXCEPT ![t] = [kind |-> "faucet", sender |-> u, nonce |-> 0,
                                      code |-> Nil, amount |-> amount]]
        /\ mem' = SetBalance(mem, u, amount)
    /\ Goto(t, "faucetRead")
    /\ UNCHANGED <<db, dbtx, writeMu, loc, committed>>

FaucetRead(t) ==
    /\ pc[t] = "faucetRead"
    /\ loc' = [loc EXCEPT ![t].nonce = mem.nonce[req[t].sender]]
    /\ Goto(t, "faucetWrite")
    /\ UNCHANGED <<mem, db, dbtx, writeMu, req, committed>>

FaucetWrite(t) ==
    /\ pc[t] = "faucetWrite"
    /\ \/ /\ dbtx = Nil
          /\ db' = [db EXCEPT !.bal[req[t].sender] = req[t].amount,
                              !.nonce[req[t].sender] = loc[t].nonce]
       \/ UNCHANGED db
    /\ Forget(t)
    /\ UNCHANGED <<mem, dbtx, writeMu, committed>>

-----------------------------------------------------------------------------
(***************************************************************************)
(* The process stops at any moment; the next one restores its state.       *)
(***************************************************************************)
Restart ==
    /\ mem' = Restored(db)
    /\ dbtx' = Nil
    /\ writeMu' = Nil
    /\ pc' = [t \in Threads |-> "idle"]
    /\ req' = [t \in Threads |-> Nil]
    /\ loc' = [t \in Threads |-> NoLocals]
    /\ UNCHANGED <<db, committed>>

GenesisTables ==
    [bal |-> [a \in Addr |-> IF a \in Users THEN GenesisBalance ELSE 0],
     nonce |-> [u \in Users |-> 0], contracts |-> {}, instanceCount |-> 0,
     store |-> {}, codes |-> [c \in Codes |-> 0], lastRow |-> 0, maxSeq |-> 0,
     opSeq |-> 1, events |-> {}]

Init ==
    /\ db = GenesisTables
    /\ mem = Restored(GenesisTables)
    /\ dbtx = Nil
    /\ writeMu = Nil
    /\ pc = [t \in Threads |-> "idle"]
    /\ loc = [t \in Threads |-> NoLocals]
    /\ req = [t \in Threads |-> Nil]
    /\ committed = <<>>

\* The rest of a request once it was received.
Serve(t) ==
    \/ Lock(t)
    \/ CallSucceeds(t) \/ CallFails(t) \/ StoreSucceeds(t) \/ CallRefused(t)
    \/ CallSimulated(t)
    \/ RestoreFailed(t) \/ ChargeFailed(t) \/ PersistFailed(t)
    \/ Begin(t) \/ Fee(t) \/ WriteTables(t) \/ Tick(t) \/ Commit(t) \/ Abort(t)
    \/ FaucetRead(t) \/ FaucetWrite(t)
    \/ Reply(t)

Next ==
    \/ \E t \in Threads : Receive(t) \/ FaucetSet(t) \/ Serve(t)
    \/ Restart

Spec == Init /\ [][Next]_vars

\* A handler that can take its next step takes it, and sync.Mutex hands the
\* lock to a waiter that has waited long enough (its starvation mode).
Fairness == \A t \in Threads : WF_vars(Serve(t)) /\ SF_vars(Lock(t))
FairSpec == Spec /\ Fairness

-----------------------------------------------------------------------------
(***************************************************************************)
(* Properties.                                                             *)
(***************************************************************************)
Labels == {"idle", "lock", "call", "begin", "fee", "write", "tick", "commit",
           "failed", "charge", "persist", "reply", "faucetRead", "faucetWrite"}

TypeOK ==
    /\ mem \in VMState
    /\ db \in Tables
    /\ dbtx \in Tables \cup {Nil}
    /\ writeMu \in Threads \cup {Nil}
    /\ pc \in [Threads -> Labels]
    /\ req \in [Threads -> Request \cup {Nil}]
    /\ loc \in [Threads -> [snap : VMState \cup {Nil}, touched : SUBSET Addr,
                            fee : Nat, nonce : Nat]]
    /\ committed \in Seq([kind : Kinds, id : TxIds, code : Codes \cup {Nil},
                          seq : Nat])

StoredCodes(v) == {c \in Codes : v.seqByCode[c] # 0}
CommittedCalls == {i \in 1..Len(committed) : committed[i].kind # "store"}

\* Memory and tables agree in everything that is not an account.
RegistryAgrees(v, d) ==
    /\ v.contracts = d.contracts
    /\ v.instanceCount = d.instanceCount
    /\ v.store = d.store
    /\ StoredCodes(v) = Rows(d)
    /\ v.opSeq = d.opSeq

\* Memory and tables agree, but for balances of accounts that are still in
\* touched and so go out with the next transaction.
Agree(v, d) ==
    /\ \A a \in Addr : v.bal[a] # d.bal[a] => a \in v.touched
    /\ v.nonce = d.nonce
    /\ RegistryAgrees(v, d)

\* Whenever no handler holds writeMu, the VM's memory is what a restart would
\* restore, whatever calls and SQL transactions failed before: at most a gas
\* fee whose row could not be written is ahead, and is still marked.
MemDbAgree == writeMu = Nil => Agree(mem, db)

\* A signed transaction takes effect at most once, however often it is sent
\* and whenever the node restarts (SPEC.md: "Re-submitting a transaction with
\* a used nonce MUST be rejected").
NoReplay ==
    \A i, j \in 1..Len(committed) : committed[i].id = committed[j].id => i = j

\* The durable contract storage is what the committed calls wrote: nothing
\* of a failed, aborted or simulated call, and nothing lost.
DurableEffects == db.store = {committed[i].id : i \in CommittedCalls}

\* The n-th committed operation has op_seq n, and its events carry it.
OpsNumbered ==
    /\ db.opSeq = Len(committed) + 1
    /\ db.events = {<<i, committed[i].id>> : i \in CommittedCalls}

\* Across restarts and rollbacks the registry holds exactly the instances
\* the counter has counted, so the next address is new.
InstancesCounted == db.contracts = 1..db.instanceCount

\* Stored codes have distinct sequence numbers up to codeSeq, after any mix
\* of repeated stores and restarts.
CodeSeqsDense ==
    writeMu = Nil =>
        /\ {mem.seqByCode[c] : c \in StoredCodes(mem)} = 1..mem.codeSeq
        /\ Cardinality(StoredCodes(mem)) = mem.codeSeq

L == INSTANCE Ledger WITH
        Genesis   <- GenesisTables.bal,
        bal       <- db.bal,
        nonce     <- db.nonce,
        contracts <- db.contracts,
        codes     <- Rows(db),
        store     <- db.store,
        opSeq     <- db.opSeq,
        events    <- db.events,
        log       <- [i \in 1..Len(committed) |-> committed[i].id]

\* On a network without a faucet the node implements the ledger: however
\* requests interleave, database errors roll back and processes restart, what
\* is on record changes by whole transactions, each at its sender's next
\* nonce and under the next operation number, and by fees.
ImplementsLedger == L!Spec

\* Every request that was received is answered.
RequestsAnswered == \A t \in Threads : pc[t] # "idle" ~> pc[t] = "idle"

\* SPEC.md on instantiate messages: codes have a "sequential uint64 ID
\* (assigned in upload order)", the code_seq of the store response.
CodeSeqStable ==
    writeMu = Nil =>
        \A i \in 1..Len(committed) :
            committed[i].code # Nil =>
                mem.seqByCode[committed[i].code] = committed[i].seq

-----------------------------------------------------------------------------
(***************************************************************************)
(* The inductive invariant behind MemDbAgree, NoReplay, DurableEffects,    *)
(* OpsNumbered and InstancesCounted on a network without a faucet.         *)
(***************************************************************************)
\* The labels of a handler whose call succeeded and has yet to commit.
Committing == {"begin", "fee", "write", "tick", "commit"}
Holding == {"call", "failed", "charge", "persist", "reply"} \cup Committing

\* writeMu is held by the one thread that is past Lock and before Reply.
LockInv ==
    \A t \in Threads :
        /\ pc[t] \in {"idle", "lock"} \cup Holding
        /\ pc[t] \in Holding <=> writeMu = t

\* What is known of the request a thread serves.
RequestInv ==
    \A t \in Threads :
        /\ pc[t] # "idle" =>
            /\ req[t] \in Request
            /\ req[t].kind = "store" <=> req[t].code # Nil
        /\ pc[t] \in Committing => Signed(t)
        /\ pc[t] \in {"charge", "persist"} => Call(t)

\* A snapshot agrees with the tables for as long as it may be restored.
SnapInv ==
    \A t \in Threads :
        /\ pc[t] \in {"call", "failed"} \cup Committing =>
            /\ loc[t].snap \in VMState
            /\ Agree(loc[t].snap, db)
        /\ pc[t] = "call" => mem = loc[t].snap
        /\ pc[t] \in {"charge", "persist", "reply"} => Agree(mem, db)

\* Where the accounts that differ from the tables wait to be written.
Unwritten(t) == IF pc[t] = "begin" \/ ~Call(t) THEN mem.touched ELSE loc[t].touched

\* What a successful call has made of the memory, accounts aside.
RegistryAhead(t) ==
    /\ mem.opSeq = IF pc[t] = "commit" THEN db.opSeq + 1 ELSE db.opSeq
    /\ mem.store = db.store \cup (IF Call(t) THEN {TxId(t)} ELSE {})
    /\ StoredCodes(mem) = Rows(db) \cup (IF Call(t) THEN {} ELSE {req[t].code})
    /\ mem.contracts = 1..mem.instanceCount
    /\ db.instanceCount <= mem.instanceCount
    /\ ~Call(t) => mem.instanceCount = db.instanceCount

\* The same with the accounts.
Advanced(t) ==
    /\ RegistryAhead(t)
    /\ req[t].nonce = db.nonce[req[t].sender]
    /\ mem.nonce = [db.nonce EXCEPT ![req[t].sender] = @ + 1]
    /\ req[t].sender \in Unwritten(t)
    /\ \A a \in Addr : mem.bal[a] # db.bal[a] => a \in Unwritten(t)

\* What the SQL transaction holds after the fee, and after the tables.
FeeWritten(t) ==
    dbtx \in {Nil, PersistAccounts(db, mem, {req[t].sender})}
RegistryWritten(t) ==
    /\ dbtx \in Tables
    /\ dbtx.contracts = mem.contracts
    /\ dbtx.instanceCount = mem.instanceCount
    /\ dbtx.store = mem.store
    /\ Rows(dbtx) = StoredCodes(mem)
    /\ dbtx.events = db.events \cup (IF Call(t) THEN {<<db.opSeq, TxId(t)>>} ELSE {})
    /\ pc[t] = "commit" => dbtx.opSeq = mem.opSeq
TablesWritten(t) ==
    /\ RegistryWritten(t)
    /\ \A a \in Addr : mem.bal[a] # dbtx.bal[a] => a \in mem.touched
    /\ dbtx.nonce = mem.nonce

CommitInv ==
    /\ \A t \in Threads :
        /\ pc[t] \in Committing => Advanced(t)
        /\ pc[t] = "write" => FeeWritten(t)
        /\ pc[t] \in {"tick", "commit"} => TablesWritten(t)
    /\ (\A t \in Threads : pc[t] \notin {"write", "tick", "commit"}) => dbtx = Nil

\* The nonces of committed transactions are used up.
NoncesUsed ==
    \A i \in 1..Len(committed) :
        committed[i].id[2] < db.nonce[committed[i].id[1]]

IInv ==
    /\ TypeOK
    /\ LockInv
    /\ RequestInv
    /\ SnapInv
    /\ CommitInv
    /\ MemDbAgree
    /\ NoncesUsed
    /\ NoReplay
    /\ DurableEffects
    /\ OpsNumbered
    /\ InstancesCounted

-----------------------------------------------------------------------------
(***************************************************************************)
(* What of it survives a faucet: everything but accounts.  handleFaucet    *)
(* runs beside the holder of writeMu, so while there is one its memory,    *)
(* its snapshot and the open transaction may differ in accounts at will.   *)
(***************************************************************************)
\* Two states of the tables that differ in account rows only.
SameRegistry(d, e) ==
    /\ e.contracts = d.contracts
    /\ e.instanceCount = d.instanceCount
    /\ e.store = d.store
    /\ e.codes = d.codes
    /\ e.lastRow = d.lastRow
    /\ e.maxSeq = d.maxSeq
    /\ e.opSeq = d.opSeq
    /\ e.events = d.events

\* What the holder of writeMu knows.
RegistryHeld(t) ==
    /\ pc[t] \in {"call", "failed"} \cup Committing =>
        /\ loc[t].snap \in VMState
        /\ RegistryAgrees(loc[t].snap, db)
    /\ pc[t] \in {"call", "charge", "persist", "reply"} => RegistryAgrees(mem, db)
    /\ pc[t] \in Committing => RegistryAhead(t)
    /\ pc[t] = "write" => dbtx = Nil \/ (dbtx \in Tables /\ SameRegistry(db, dbtx))
    /\ pc[t] \in {"tick", "commit"} => RegistryWritten(t)
    /\ pc[t] \notin {"write", "tick", "commit"} => dbtx = Nil

LockHeld == \A t \in Threads : pc[t] \in Holding <=> writeMu = t

RegistryInv ==
    /\ TypeOK
    /\ LockHeld
    /\ RequestInv
    /\ \A t \in Threads : writeMu = t => RegistryHeld(t)
    /\ writeMu = Nil => RegistryAgrees(mem, db) /\ dbtx = Nil
    /\ DurableEffects
    /\ OpsNumbered
    /\ InstancesCounted
=============================================================================
