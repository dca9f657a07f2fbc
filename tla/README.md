# Verification of NitroVM

TLA+ specifications of `layer-3/nitrovm`, a CosmWasm execution engine with an
HTTP node around it. The engine (`runtime/`) runs contracts and dispatches the
messages they return; the node (`node/`) serves requests, charges gas, and keeps
the engine's memory and an SQLite database in step; a command-line client signs
and posts transactions. Paths below are relative to the repository.

## 1. The system

| Part | State it keeps | Operations | Module |
|---|---|---|---|
| Engine, `runtime/vm.go` | accounts (balance, nonce), contract registry, instance counter, touched set, contract storage | Execute, Instantiate, dispatchMessages, dispatchSingleMessage, invokeReply, transferFunds, Snapshot, Restore | `NitroVM` |
| Code registry, fees, operation counter, `runtime/vm.go` | codes and their sequence numbers, block height (`op_seq`) | StoreCode, validateNonce, DeductGasFee, SetBalance, TickOp, TouchedAddresses | `Node` |
| Handlers, `node/handler.go`, `node/server.go` | `writeMu`, a handler's snapshot and touched list | store, instantiate, execute, simulate, faucet | `Node`, which implements `Ledger` |
| Persistence, `node/persist.go`, `cmd/nitrolite/main.go` | tables codes, code_seqs, contracts, accounts, meta, events, contract_storage | the SQL transaction of a handler, restore() | `Node`; the block time row in `Escrow`; rows by spelling in `Client` |
| Storage adapters, `storage/` | key-value pairs per contract | get, set, delete, range, snapshot, restore | `Host` |
| Gas meter, KV wrapper, querier, `runtime/gas.go`, `runtime/host.go` | gas consumed, first storage error, open iterators | consume, get, set, iterate, query | `Host` |
| Contracts `contracts/token`, `contracts/escrow` | balances; one escrow each | transfer; deposit, approve, refund, clone | `Escrow` |
| Client `cmd/nitroctl` | keys, flags, the nonce it fetched | store, instantiate, execute, deploy, faucet | `Client` |
| Signed transactions, `crypto/`, `parseSigned` | none | decode, recover the sender, check chain id and gas price | input of `Node`; `ParseSigned` of `Client` |
| Read-only endpoints | none | query; account, status; events, codes, contracts | query in `Host`; account, status in `Client` |

How the parts interact. A handler runs in its own goroutine. It takes `writeMu`,
snapshots the VM, calls it, and on success opens an SQL transaction, deducts the
fee, writes the rows of everything the call touched, advances `op_seq` and
commits; on any error it restores the snapshot. Inside the VM a call is a
recursion: an entry point returns messages, `dispatchMessages` runs each of them,
catches its failure when the sender asked for it (restoring a snapshot of its
own) and calls the sender's `reply`, which may return messages again. The storage
is in memory; the node writes all of it to the database with every commit, and a
new process rebuilds everything from the tables. A running contract reaches its
storage through the KV wrapper and other contracts through the querier, which a
`/query` request uses at the same time without any lock. A client asks for the
nonce, signs, posts, and waits 30 seconds.

What is hard in it: nested rollbacks (two kinds of snapshots over the same
state, whose storage part is a map that is handed out again), gas that flows down
as a remainder and up as a sum, a crash or an SQL error between the change of the
memory and the commit, a faucet that does not take the lock, requests that arrive
twice, late or never, a client that gives up while the node goes on, a clock that
stands still between operations and follows a wall clock that may be set back, and
counters that are rebuilt from tables at a restart. PROJECT.json lists these as hazards with their lines.

What makes the parts correct. Engine: no more gas than granted, bounded depth,
tokens conserved, exactly the effects of the calls that stand, none of those that
were rolled back, no account changed that is not marked for writing. Node: to its
clients a ledger in which every transaction happens at once or not at all; memory
and tables agree whenever the lock is free; every request is answered. Host:
snapshots and iterators are not disturbed by what happens after them; meters are
exact. Escrow: pays once, to the right party, not too early. Client: what it
reports is what happened.

## 2. Modules

**`NitroVM`** models `runtime/vm.go` as one thread of control with an explicit
stack. `vm` is the engine's mutable state; `stack` has a frame for every
activation of `dispatchMessages` that waits for a message or a reply, with its
budget, its gas used and remaining, its events and its snapshot; `call` is the
call being made and `ret` the result on its way back. `pc` says where the engine
is: `call` (looking up the target), `pay` (inside `transferFunds`, one coin per
step), `run` (inside a contract), `loop` (head of the dispatch loop), `ret`.
The contract itself is nondeterministic: it spends gas, writes, fails, or returns
messages of any kind to any address. A write is the number of the run that made
it, so that the storage tells which runs stand. A run that returns an error has
written first; one that is out of gas has not. A coin below zero stands for a
denomination or an amount the code refuses. Of messages the engine makes two kinds
of event: the transfer of a bank message, and, in front of what the new contract
returned, the instantiate event that has its address (`"announced"`). A wasm
message's funds are in no event of the engine, and a transaction's own instantiate
has no event; its address is in the result (`tx.created`). Everything else in the
list is what contracts return: the contracts modelled return one event per run, with
the entry point and the MessageInfo they were given. `EndTx` includes the caller's side:
a failed or simulated transaction is restored from the snapshot before it. The
storage adapter is the one the node uses, the memory adapter.

**`MCNitroVM`** has the coins TLC uses.

**`Node`** models the handlers. `mem` is the VM's memory, `db` the tables as
committed, `dbtx` the tables as the open transaction sees them; `pc`, `req` and
`loc` are the position, request and local variables of every handler. An action
is what a handler does between two points where another goroutine, an error or
a crash can be observed: `Lock` (and Snapshot), `CallSucceeds`, `CallFails`,
`CallRefused`, `CallSimulated`, `StoreSucceeds`, `RestoreFailed`,
`ChargeFailed`, `PersistFailed` (the fee of a failed call, with an ignored
error), `Begin`, `Fee`, `WriteTables`, `Tick`, `Commit`, `Abort` (every error
path of the SQL transaction), `Reply`, the three steps of the faucet, and
`Restart` at any moment. The effect of a contract call is abstracted to what
`NitroVM` allows, bounded in the definition itself: one token moves between any two
accounts or none, up to one contract appears, and the storage receives the stamp of the transaction (its
sender and nonce), so the durable storage tells which transactions stand.
`committed` is a history variable: the transactions committed, in order.
A simulated call has no nonce (`NoNonce`).

**`Ledger`** is what the node promises, with none of its machinery: balances,
nonces, contracts, codes, storage, numbered events and a log, changed by
`CallTransaction` and `StoreTransaction`, each in one step with all its effects,
and by `Charge`, the fee of a failed call. The refinement mapping is in `Node`
(`L == INSTANCE Ledger WITH ...`): the ledger's state is the committed tables and
`committed`. Locking, snapshots, rollbacks, the SQL transaction, simulations and
restarts are stuttering steps. `ImplementsLedger` is checked as a property of runs
without a faucet, which sets balances at will.

**`Escrow`** has the two contracts and the block clock. A step is a committed
transaction; what fails leaves no trace, as `NitroVM` and `Node` show. `blockTime`
is the time of the last committed operation, which is what `TickOp` leaves for the
next call; `savedTime` is the row a restart reads, from a second reading of the clock;
`now` is the wall clock, which passes (`Pass`) and may be set back (`SetBack`, also
between the two readings). `setBack` remembers that it was, since the last committed
operation read it.
`Uint128` and `u64` arithmetic is bounded by constants, and overflow is an error,
as `overflow-checks = true` in the contracts' `Cargo.toml` makes it. An escrow may
be the seller of another or of itself. `paid` and `asked` are history.

**`Sums`** has the sum that conservation is about: the number of units a function
counts, without recursion, so that it can be reasoned about. `MCEscrow` has TLC
compare it with the sum of the community modules.

**`Host`** has what lies behind a contract's imports. `heap` gives Go maps an
identity: `data` is the map the memory adapter uses, a snapshot holds another, and
`Restore` puts a snapshot's own map in use. Two goroutines run at once, the
transaction (`tx`) and a request (`query`), each with its KV wrapper and at most one
open iterator. With the sqlite adapter accesses may fail and there are no
snapshots. `meters` is the chain of gas meters from the running contract down
through the queries it nested; `spent` is the sum of the charges a meter took. A
charge beyond the limit ends the run; one whose sum leaves 64 bits is refused, leaves
the meter as it was, and the run may go on. The storage accesses of a nested query
are those of the concurrent query. What wasmvm reports as used is anything up to the
limit: whether it includes what the querier's meter counted is not assumed. `MCHost` has the symmetry of map identities.

**`Client`** has several `nitroctl` programs with one key and as much of the node as
they can tell apart. `pc`, `loc` and `resp` are the program's position, variables
and the answer on its way; `reqs` are requests in the network or in a handler. A
request may be served at any time after it was posted, also when nobody waits any
more, or never. `inflight` is the transaction that holds `writeMu`; `GetNonce` reads
the live memory as `handleAccount` does. `rows` are the rows of one account's
spellings, in rowid order: `INSERT OR REPLACE` moves a row to the end and
`restore()` lets the last one win. handleFaucet takes no lock: `FaucetSet`,
`FaucetRead` and `FaucetWrite` interleave with each other and with the transaction,
and the write may fail after the memory changed, as the row of a failed call's fee
may (`FailCharged`). A restart drops what the process was serving and leaves requests
that are on their way. History: `astray` is what of the account the rows may have
wrong because of this (nonce, balance), `rewound` that a restart took over a nonce
that was astray, `booted` the length of the record when the node last started.

**`MCNode`**, **`MCClient`** are the instances TLC checks.

**`NodeProofs`**, **`LedgerProofs`** (the refinement), **`CodeProofs`** (code numbers),
**`NitroVMProofs`**, **`EscrowProofs`**, **`HostProofs`**, **`ClientProofs`** and
**`SumProofs`** (lemmas about sums) have the proofs; section 4 says what they show.

A definition whose comment starts with "Mutant" is a plausible mistake in the
definition after it; PROJECT.json says which property must notice it. No
specification uses them.

## 3. What TLC checks

| Run | Distinct states | What it shows |
|---|---|---|
| `VMDispatch` | 2.5 M | all nestings of calls, payments, instantiations and replies over two contracts, in two runs' worth of transactions |
| `VMReplies` | 0.4 M | two messages per response, gas costs 1 and 2, budgets 0 and 3; every transaction ends |
| `NodeCalls` | 1 M | two concurrent requests, two senders, SQL errors and crashes at every step; the ledger is implemented |
| `NodeStore` | 8 k | codes stored, stored again, restored; the ledger is implemented |
| `NodeDevnet` | 0.2 M | the faucet among calls; every request is answered |
| `Escrow` | 2.6 M | two escrows, clones, partial deposits, expiries, restarts, a clock that is set back |
| `Host` | 0.7 M | a transaction and a query over either adapter |
| `Client` | 2.6 M | two programs, lost and late answers, timeouts, restarts, faucets beside transactions, lost rows, two spellings |

Engine properties. `GasWithinBudget`: in every frame used and remaining add up to
the budget, which is within the caller's remaining gas. `DepthBounded`: a frame's
depth is its position, also for messages of replies. `TouchedCoversChanges`:
every account that differs from any live snapshot is marked. `FreshInstances`: an
address that a rollback made free is given out again with empty storage.
`CallersRegistered`: the contract that waits for a reply exists. `SupplyConserved`.
`RunsReported`: the events of contracts that return one per run name, in a successful
transaction, exactly the runs whose writes are stored, in order.
`BalancesExplained`: what the surviving runs were told they got (MessageInfo) and the
transfer events account for every balance. It is about the engine and contracts that
report what they were told; the engine's events alone do not tell balances.
`ContractsAnnounced`: the instantiate events of messages and the address in
InstantiateResult are exactly the contracts that appeared. `TxTerminates`.

Node properties. `MemDbAgree`: with the lock free, memory is what a restart would
restore, except that an account whose fee row could not be written is still
marked; of codes it compares which there are, not their numbers, which are the
subject of `CodeSeqsDense` and of `NodeCodeSeq`. It and `NoReplay` are about networks
without a faucet. `NoReplay`, `DurableEffects`, `OpsNumbered`, `InstancesCounted`,
`CodeSeqsDense` as their comments say. `ImplementsLedger`: the refinement; among
other things fees are burned, and no lost row ever gives tokens back.
`RequestsAnswered`.

Escrow properties. `PaysOnce`: nothing while open, exactly once when closed, the
agreed amount to the seller or the deposit to the buyer. That status and tokens, in
two contracts, move together or not at all is shown of the engine and the node, not
here. `ExpiryHonoured`: nobody but the arbiter refunds before the seconds asked for
have passed on the block clock, for no value of them. `BlockTimeMonotone`: for
transactions, the block time goes back only when the wall clock was set back since
the last committed operation read it; the two readings of `tickOp` and a restart do
not do it. Queries are not covered: beside a commit that fails one may see a time that
`Restore` takes back (vm.go:906). `TokensConserved`.

Host properties. `SnapshotsIntact`: a snapshot of the memory adapter has the contents
it was taken with, after any number of writes and inner restores. `IteratorsExact`: an
iterator that Range opened yields what lay between its bounds then, in order; the
reference is a set comprehension over the storage. When Range fails the contract is
given an empty iterator, which is exempt. `ErrorsFreeze`: after a failed access a run
writes nothing. `GasExact`: a meter reports exactly the charges it took and is out of
gas exactly beyond its limit, at the end of 64 bits too, and a nested query is given
no more than is left, so a chain is never charged more than its run was given.

Client properties. `OkMeansCommitted`: success is reported only for transactions on
record, each once and with the nonce that was signed. `DeployInOrder`: the second half
of a deploy is on record only behind its first half, with the nonce that follows.
`RetryWithNonceSafe`: a nonce is on record at most once in the life of a node process,
whatever the faucet does, so a retry with `--nonce` is safe there; and at most once over
all restarts and spellings, but for one case. `FetchedNonceNear`: a fetched nonce is no
older than the record at the start of the command and at most one ahead.
`RowsRestoreAccount`: between two transactions a restart finds the codes as they are in
memory; the nonce, unless a faucet request overlapped a transaction and no row was
written alone since; the balance, unless requests overlapped like that or a row could
not be written.

The one case is `rewound`: a node restarted after such an overlap may start with an
old nonce, and what is said of nonces over restarts, of the two halves of a deploy
being neighbours and of `FetchedNonceNear` does not hold from then on.
`NodeFaucetReplay` shows that case. On a network without a faucet it cannot happen.

Bounds. `MaxDispatchDepth` is 2 instead of 10: the limit is met from a
sub-message, from a reply and from a reply's messages, and a catching frame can
have a catching frame above it. One user suffices in the engine, since only one
transaction runs at a time; two contracts are needed for a caller, a callee and
an address given out twice. Balances of 1 make the second payment fail. A gas
limit of 3 or 4 with costs of 1 and 2 runs dry inside a reply. `MaxCalls` stops new
transactions, never one that is running. In the node two threads show a holder
and a waiter of the lock, `MaxNonce` 2 lets a sender commit twice and re-send
both, `MaxOps` stops new requests, and `Receive` allows any request at any time,
so that everything is delivered late, twice and out of order. A call that moves more
than one token or makes more than one contract is left to the engine: the handlers
treat what a call changed only through the touched set and the registry. In `Escrow` a
price of 2 takes two deposits, two escrows let one sell to itself or clone, and two
points in time let an expiry of one second pass, be missed, be set back, and leave 64
bits (whose largest value is 1 there). In `Host` two keys give every shape of a range,
two snapshots and three maps let a restored map be written under an outer
snapshot, and gas runs to the largest number, 3. In `Client` three commands by two
programs let a command race another and be retried, and let two faucet requests meet
each other or a transaction; store and instantiate are exercised through deploy.

Symmetry is used in `NodeCalls` (threads, users), in `Host` (maps) and in `Client`
(programs); none of them has a liveness property. Deadlock is checked in every run: everything modelled can
always take a step (an idle VM refuses a wrong nonce, a node can restart).

Fairness. The engine: weak fairness of its next step, because a call runs to its
end without waiting for anything. The node: weak fairness of every handler's
next step; strong fairness of `Lock`, because `sync.Mutex` hands a waiter the lock
after one millisecond (starvation mode). A restart answers a request by breaking
its connection. Of the client nothing is assumed: that a command ends is the timer of
`http.Client`, an action that is always open to a program that waits.

### Where documents and code differ

Four runs show a property violated that a document or comment states:

- `VMReplyCaught`: SPEC.md:165 says an error of a reply aborts the transaction. It
  is an ordinary error one level up and is caught there.
- `NodeCodeSeq`: a code that is stored again moves behind the others in its table,
  and a restart numbers the codes in that order; contracts that instantiate by
  number then get the other code.
- `NodeFaucetReplay`: on a development network the faucet writes back a nonce it
  read before a commit; after a restart the committed transaction is accepted
  again. The faucet also changes memory between another handler's snapshot and
  restore, which breaks `MemDbAgree` there.
- `EscrowExpiry`: `msg.rs:14` counts the expiry "from instantiation", but the block
  time of a call is that of the operation before it. After a quiet period an
  escrow may be refundable by anyone as soon as it exists.

Noticed without a run:

- SPEC.md:135 says exceeding the depth limit aborts the transaction; a caller with
  `ReplyError` or `ReplyAlways` catches it.
- SPEC.md:208 lists the SQLite adapter as one with savepoints, and SPEC.md:159 wants
  storage rolled back; `storage/sqlite` does not implement `Snapshotable`. The node
  runs on the memory adapter.
- host.go:24 says callers can check the captured storage error; `invokeReply` does
  not, and an error of Range is not captured at all. Only the sqlite adapter has
  such errors.
- `Reply.gas_used` (SPEC.md:157) is never set; a store transaction's gas limit is not
  looked at; a failed call's fee is taken without using its nonce, and a retry is
  charged again.
- `msg.rs:29` says anyone can refund after expiry; nobody but the arbiter can until
  some other operation has committed after it, since the clock stands still.
- A deposit is a claim: the escrow does not look whether the tokens arrived. If they
  did not, approve and refund fail until they do. An escrow over amount zero can
  never be released, since the token refuses to move nothing.
- The token's `total_supply` counts an address listed twice in `initial_balances`
  twice, while its balance is the last one.
- A client that times out and is simply run again asks for a new nonce, so the
  first and the second transaction may both take effect; `--nonce` prevents it.
- A faucet request whose row cannot be written has already changed the memory.
- The engine's events do not tell what a transaction paid: the funds of a wasm message
  are in none of them, and only a contract that returns them makes them known.
- `blockTime` is whatever the wall clock says, also when it was set back; an expiry
  that had passed may then be ahead again.
- `/account` reads balance and nonce one after the other; a commit may lie between.

## 4. What is proved

TLAPS checks the theorems below for every value of the constants that satisfies
the named assumptions. TLC evaluates the assumptions in every run, and the inductive
invariants were also model-checked on instances of section 3, but for `LogInv`, which
speaks of functions on all natural numbers, so that TLC cannot evaluate it.

| Module | Theorems | Property |
|---|---|---|
| `NodeProofs`, no faucet | `Inductive`, `MemoryAgreesWithDatabase`, `TransactionsNotReplayed` | `MemDbAgree`, `NoReplay` |
| `NodeProofs`, any network | `RegistryInductive`, `RegistryNeverDiverges`, `TypeCorrect`, `EffectsAreDurable`, `OperationsNumbered`, `RegistryCounted` | `TypeOK`, `DurableEffects`, `OpsNumbered`, `InstancesCounted` |
| `LedgerProofs` | `NodeImplementsLedger`, `BalancesNeverAhead` | `ImplementsLedger` |
| `CodeProofs` | `CodesNumbered` | `CodeSeqsDense` |
| `NitroVMProofs` | `TypeCorrect`, `GasNeverExceedsBudget`, `RecursionBounded`, `TouchedComplete`, `InstancesFresh`, `WaitingCallersRegistered`, `SupplyNeverChanges`, `EventsNameSurvivingRuns`, `FundsAsTold`, `NewContractsAnnounced` | `TypeOK`, `GasWithinBudget`, `DepthBounded`, `TouchedCoversChanges`, `FreshInstances`, `CallersRegistered`, `SupplyConserved`, `RunsReported`, `BalancesExplained`, `ContractsAnnounced` |
| `EscrowProofs` | `TypeCorrect`, `EscrowsPayOnce`, `ExpiriesHonoured`, `BlockTimeFollowsClock`, `TokensNeverLost`, `RecipientsNeverFull` | `TypeOK`, `PaysOnce`, `ExpiryHonoured`, `BlockTimeMonotone`, `TokensConserved` |
| `HostProofs` | `TypeCorrect`, `SnapshotsStayIntact`, `IteratorsAreExact`, `ErrorsAreFinal`, `GasIsExact` | `TypeOK`, `SnapshotsIntact`, `IteratorsExact`, `ErrorsFreeze`, `GasExact` |
| `ClientProofs` | `TypeCorrect`, `AccountRestored`, `RetriesSafe`, `NonceNear`, `SuccessMeansCommitted`, `DeploysInOrder` | `TypeOK`, `RowsRestoreAccount`, `RetryWithNonceSafe`, `FetchedNonceNear`, `OkMeansCommitted`, `DeployInOrder` |

### The node

Any number of threads, senders and fees, any finite set of codes, all bounds.
`MemDbAgree`, `NoReplay` and the refinement are about accounts and hold on a network
without a faucet (`Devnet = FALSE`): the faucet breaks them, as `NodeFaucetReplay`
shows. Everything else is proved for every network. Assumption: `NodeAssumption`
(addresses of users are not numbers, `Nil` is neither a thread nor a code, codes are
finite, bounds and fees are natural numbers).

`MemDbAgree` is not inductive: it says nothing while the lock is held. `IInv` adds
what holds then. `LockInv`: the holder is the one thread inside a handler.
`SnapInv`: a snapshot that may be restored agrees with the tables, so every error
path leads back to agreement; after it the memory itself agrees, also with a fee
deducted and not written, because its account is marked. `Advanced`: a call that
succeeded is ahead of the tables by exactly one nonce, its stamp, its contracts or
its code, and every balance that differs belongs to `Unwritten`, the VM's touched
set before `Begin` and the handler's list after it. `FeeWritten` and
`TablesWritten`: what the SQL transaction holds after each of its steps, in the end
what the memory holds. `NoncesUsed`: a committed nonce is below the sender's, which
is why a transaction whose nonce matches is new. Lemma `ThreadStep` reduces the
invariant to the part about the thread that moves, since the others are outside
their handlers; there is one lemma per action, over lemmas about the operators on
memory and tables.

`RegistryInv` is what of this survives a faucet: all that is not an account, namely
contracts, storage, codes, operation numbers and events. handleFaucet runs beside the
holder of the lock, so the holder's memory need not be its snapshot when it calls, the
fee's row in the open transaction need not be the memory's any more, and a snapshot
put back may take a faucet's balance with it. None of this touches the registry:
lemma `OutsideStep` shows that a thread outside the lock, whatever it does to
accounts, leaves what the holder knows of the registry intact (`RegistryHeld`). So the
damage a faucet can do ends at balances and nonces.

The refinement needs more than which balances differ: by how much. `BalanceInv`
says that memory and every snapshot are at or below the tables (a fee whose row was
not written), that a call in flight has moved at most one token from there and a
store none (`Owed`), and that a call made at most one contract. With it,
`PersistFailed` is the ledger's `Charge`, `Commit` is its `CallTransaction` or
`StoreTransaction`, and every other step leaves tables and history alone.

Code numbers, with a faucet or without, are counted twice: by the VM as codes arrive, and by `restore()` from
the rows of a table whose order changes when a code is stored again, with the
counter from a second table. `CodesInv` ties them: rows are distinct and at most
`lastRow`, the largest recorded number is how many rows there are, also in the open
transaction, and a code not yet on record has the last number. That ranks of
distinct rows are exactly 1 to n is a pigeonhole argument (`RestoredDense`).

### The engine

Any contracts, users, funds, gas limits, costs, messages and depth limit.
Assumptions: those of module `NitroVM` on its constants (that there are finitely many
users, who have balances to add up, is one), and `NoSnapAssumption` (the mark for "no
snapshot" is no state of the VM).

`TypeOK` is proved with `Control`: what `pc` says about the stack and the call in
flight. It is needed because a frame's `self` is the recipient of the call that
pushed it, a contract only because the call was entered, and Restore finds a snapshot
only because the frame that catches took one. `GasWithinBudget` is then inductive as
it stands. `DepthInv` adds that a call in flight is as deep as the stack is long.
`InstanceInv` states freshness of every snapshot that may still be restored as well as
of the memory, since a rollback takes counter, registry and storage back together,
and that a snapshot knows every contract that was waiting when it was taken.
`TouchedInv` states the same covering between every snapshot and the older ones: a
rollback brings an older set of marks back, which must cover what had changed by then.
`SupplyInv` states conservation of every snapshot as well as of the memory.

That the events of a transaction and what its runs were told agree with what it did is
about histories, of which the state keeps none: a rollback forgets runs and payments together with their events,
and what is left must still add up. The proof works with *points*: a state of the VM
together with the number of runs so far. `Explained(p, events, q)` says that the
events lead from point p to point q: their stamps are what was written in between, in
the order of the runs (`Reported`), and every balance and every new contract is what
the payments and instantiations they tell of make of those of p (`Accounted`). Two
stretches that meet compose (`ExplainedTogether`). `LogInv` says that there is a point
for the start of the transaction and one for every activation on the stack, such that
the events a frame has gathered lead from the point before to its own (`Chain`), that
the snapshot a frame took is the state of its point, so that a rollback is a return to
that point (`Link`), and that the call in flight, with the coins it has paid so far, or
the result on its way up leads from the innermost point to the present (`InFlight`).
When the transaction ends one stretch is left, from its start to its end, which is
`RunsReported` and `BalancesExplained`. `InstanceInv` is needed because a contract that
appears must not have been there before. This counts new contracts by their own runs;
`AnnounceInv` adds that, in every list of events on the stack or on its way up, the
contracts that ran their instantiation are those the engine announces and, in the
outermost list only, the one the transaction itself creates (`Names`, `OwnAt`). The two
together are `ContractsAnnounced`. The event each modelled contract returns from a run
is what carries the argument; the theorems say nothing of contracts that return none.

### Storage, gas and queries

Any keys, values, contracts, maps and any width of integers (`HostAssumption`).
`SnapshotsIntact` needs `MapsDistinct`: the map in use and those of all snapshots are
different maps; Restore hands a snapshot's map to the adapter and forgets the
snapshot, so this survives. `WrapperInv`: what an iterator has given and what it
still has make up the range it was opened on, in order. That sorting by rank lists every key of
a range once and in order (`SortedFacts`) is a pigeonhole argument over the number of
smaller keys. `ChainExact`: a meter of the chain counts exactly the charges it took, is
out exactly when they exceed its limit, only the innermost can be out, and a nested
limit fits into what the meter before it has left. Of wasmvm it uses only that a report
is within the limit.

### The contracts

Any users, escrows, prices, and any bounds of `Uint128`, `u64` and time. `IInv` adds to
`PaysOnce` that clocks are ordered (`ClocksOrdered`: unless the wall clock was set back
since an operation last read it, the block time is not ahead of the saved row, nor the
row of the wall clock) and what the contract's checks keep true of
an escrow (`EscrowsConsistent`: the deposit is within the price and has a buyer, a
released escrow was paid in full, the expiry is the block time of creation plus the
seconds asked for, and only escrows that exist have paid). `TokensNeverLost` adds up
users and escrows; since the total fits `Uint128`, so does what any recipient would
have after a transfer its sender can afford (`RecipientsNeverFull`), and the checked
addition in `execute_transfer` never is what fails a payment.

Sums are counted, not folded: a payment takes a unit away here and adds one there, so
that the cardinality lemmas of the library give `TotalUpdate`, `TotalPayment` and
`TotalConcat` without induction.

### The client

Any number of programs, spellings, codes, commands and fees. Assumption besides the
constants' own: `NilAssumption` (`Nil` is no transaction). `NodeInv` speaks of the
*current* state: the memory, or the snapshot of the transaction in flight.
`FlightInv`: a transaction in flight is one nonce ahead of it. `RecordInv`: since the
process started, nonces are on record without gaps up to the current one, and without
a rewinding restart the current nonce is the number of transactions on record.
`RowsInv`: while no nonce is astray no faucet request is served beside a transaction,
and the last row and every row a faucet has yet to write have the current nonce; while
nothing is astray the balance is that of the last row or of the one faucet request
being served. A row made of the live memory while no faucet is served puts everything
right, which is why `astray` can be emptied there and nowhere else but at a restart.
`FetchInv` adds to `FetchedNonceNear` what a
program remembers before it has the nonce. `RunInv` follows a command from its start to
its report: runs have numbers of their own, a transaction is pending or on record and
only once, an answer of success belongs to an entry of the log, the second half of a
deploy is posted when the first is on record and with the nonce that follows, and
nothing of a command that has reported is still pending.

### Only model-checked

- `TxTerminates`, `RequestsAnswered`: liveness under fairness is beyond this prover.
- The four disagreements of section 3, which are counterexamples.

## 5. What is not modelled

- WebAssembly execution itself, a library: nondeterministic choices stand for it.
- RLP, signatures, hex and JSON text: conversions without state.
- The listing endpoints and the printing commands, which compute nothing, and the
  handling of the key file.
- A `restore()` that fails (the process does not start) and loss of power (SQLite
  runs with synchronous=NORMAL and may lose the last commits).
- The data a reply returns, a payload that replaces another.
- `Close()` while handlers run: to the database it is a crash, which `Restart` is;
  the use of a freed library handle is outside the model.

## 6. Plan

1. Done: the engine (`NitroVM`), the node (`Node`), the ledger it implements, the
   contracts (`Escrow`), storage, gas and queries (`Host`), the client with restarts
   and alias rows (`Client`).
2. Done: the proofs of section 4 for all of them, and the refinement of `Ledger`.
3. Done: conservation and the events of the engine, and what of the node survives a
   faucet.
4. Open: a liveness argument by hand for what TLC checks on small instances only
   (`TxTerminates`, `RequestsAnswered`).
