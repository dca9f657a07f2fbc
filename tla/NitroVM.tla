------------------------------ MODULE NitroVM ------------------------------
(***************************************************************************)
(* The execution engine of runtime/vm.go: Execute and Instantiate with the *)
(* recursive dispatch of sub-messages, the reply entry point, the gas      *)
(* budget that flows down and the gas consumed that flows up, and the      *)
(* snapshots that undo a failed sub-message or a failed transaction.       *)
(*                                                                         *)
(* The Go call stack is the variable stack: one frame per activation of    *)
(* dispatchMessages that is waiting for a sub-message or for a reply.      *)
(* What a contract does is nondeterministic: it spends some gas, writes to *)
(* its storage, then fails or returns sub-messages.  A write is the stamp  *)
(* of the entry-point run that made it, so storage tells who wrote.  The   *)
(* storage adapter is the node's, memory: it has snapshots and no errors.  *)
(***************************************************************************)
EXTENDS Integers, Sequences, Sums

CONSTANTS
    Users,             \* externally owned accounts, which sign transactions
    MaxInstances,      \* bound on contracts ever instantiated
    GenesisContracts,  \* contracts 1..GenesisContracts exist at the start
    GenesisBalance,    \* balance of every account at the start
    MaxDispatchDepth,  \* maxDispatchDepth, 10 in the code
    GasLimits,         \* gas limits a transaction may carry
    GasCosts,          \* gas an entry point may consume
    Funds,             \* sequences of coins a message may carry
    MaxMsgs,           \* bound on sub-messages in one contract response
    MaxCalls,          \* bound: no transaction runs after that many calls
    NoSnap             \* the nil snapshot

ASSUME UsersAssumption == Users \cap Int = {} /\ IsFiniteSet(Users)
ASSUME BoundsAssumption ==
    /\ MaxInstances \in Nat \ {0}
    /\ GenesisContracts \in 0..MaxInstances
    /\ MaxDispatchDepth \in Nat
    /\ MaxMsgs \in Nat
    /\ MaxCalls \in Nat
    /\ GenesisBalance \in Nat
ASSUME GasAssumption == GasLimits \subseteq Nat /\ GasCosts \subseteq Nat
ASSUME FundsAssumption == Funds \subseteq Seq(Int)

Contract == 1..MaxInstances
Addr == Users \cup Contract

(***************************************************************************)
(* core.CreateContractAddress hashes the creator, the code id and the      *)
(* instance counter; the hash has no collisions, so the counter identifies *)
(* the address.                                                            *)
(***************************************************************************)
CreateContractAddress(instanceCount) == instanceCount

(***************************************************************************)
(* The mutable state of the VM that a call can change.                     *)
(***************************************************************************)
VMState == [balance       : [Addr -> Nat],
            nonce         : [Users -> Nat],
            contracts     : SUBSET Contract,
            instanceCount : 0..MaxInstances,
            touched       : SUBSET Addr,
            store         : [Contract -> SUBSET Nat]]
ASSUME NoSnapAssumption == NoSnap \notin VMState

ReplyOn == {"never", "success", "error", "always"}
CanCatchError(replyOn) == replyOn \in {"error", "always"}
WantsSuccess(replyOn) == replyOn \in {"success", "always"}

Kinds == {"execute", "instantiate", "bank", "reply", "unsupported"}
Errors == {"none", "nonce", "notfound", "nocode", "coin", "funds", "contract",
           "outofgas", "reply", "depth", "unsupported"}

\* A call in progress; stored says whether the code id of an instantiate
\* names a stored code, due holds the coins transferFunds has yet to move.
Call == [kind : Kinds, from : Addr, to : Addr, stored : BOOLEAN,
         coins : Seq(Int), due : Seq(Int), gas : Nat, depth : Nat]

\* An event of a response.  The engine makes two kinds: "bank" is the
\* transfer event of a bank message, with payer, payee and coins, and
\* "announced" the instantiate event of a message, with the new address.
\* The others are a contract's own: the contracts here return one event from
\* every run, naming the entry point that ran and the MessageInfo it was
\* handed.  No event the engine makes tells the funds of a wasm message.
Event == [kind : Kinds \cup {"announced"}, from : Addr, to : Addr,
          coins : Seq(Int), stamp : Nat]

Result == [err : Errors, gas : Nat, events : Seq(Event)]

\* An activation of dispatchMessages, with the gas of the entry point that
\* returned the messages already counted in used.
Frame == [self : Contract, depth : Nat, gas : Nat, used : Nat,
          remaining : Nat, pending : 0..MaxMsgs, events : Seq(Event),
          sub : Seq(Event), replyOn : ReplyOn,
          snap : VMState \cup {NoSnap}, awaiting : {"none", "sub", "reply"}]

\* The public entry point at work; nonce is NoNonce for a simulated call,
\* created holds the address an InstantiateResult returns.
NoNonce == -1
Tx == [sender : Users, gasLimit : Nat, nonce : Int, snap : VMState,
       created : SUBSET Contract]

VARIABLES
    vm,     \* the VM's mutable state
    pc,     \* what the engine does next
    call,   \* the call being made
    ret,    \* the result on its way to the caller
    stack,  \* activations of dispatchMessages, innermost last
    tx,     \* the transaction being run
    calls   \* entry points run so far, the source of stamps

vars == <<vm, pc, call, ret, stack, tx, calls>>

-----------------------------------------------------------------------------
(***************************************************************************)
(* Helpers of vm.go.                                                       *)
(***************************************************************************)
SafeSubGas(a, b) == IF b >= a THEN 0 ELSE a - b

Snapshot(v) ==
    [balance       |-> v.balance,
     nonce         |-> v.nonce,
     contracts     |-> v.contracts,
     instanceCount |-> v.instanceCount,
     touched       |-> v.touched,
     store         |-> v.store]

\* Mutant: Restore leaves the contract registry as the failed call left it.
RestoreButContracts(v, s) == [Snapshot(s) EXCEPT !.contracts = v.contracts]

\* Mutant: Restore forgets the storage adapter.
RestoreButStore(v, s) == [Snapshot(s) EXCEPT !.store = v.store]

\* Mutant: Restore keeps the balances of the failed call.
RestoreButBalances(v, s) ==
    [Snapshot(s) EXCEPT !.balance = v.balance, !.touched = v.touched,
                        !.store = v.store]

Restore(v, s) ==
    [balance       |-> s.balance,
     nonce         |-> s.nonce,
     contracts     |-> s.contracts,
     instanceCount |-> s.instanceCount,
     touched       |-> s.touched,
     store         |-> s.store]

\* Amount.Sub fails rather than go below zero.
AffordableWithin1(v, from, amt) == amt <= v.balance[from] + 1
Affordable(v, from, amt) == amt <= v.balance[from]

Move(b, from, to, amt) == [[b EXCEPT ![from] = @ - amt] EXCEPT ![to] = @ + amt]

\* Mutant: both balances are computed before either is stored.
TransferStaleRead(v, from, to, amt) ==
    [v EXCEPT !.balance = [@ EXCEPT ![from] = v.balance[from] - amt,
                                    ![to] = v.balance[to] + amt],
              !.touched = @ \cup {from, to}]

\* Mutant: only the payer is marked.
TransferTouchesPayer(v, from, to, amt) ==
    [v EXCEPT !.balance = Move(v.balance, from, to, amt),
              !.touched = @ \cup {from}]

\* One coin of transferFunds: both balances move, both accounts are touched.
Transfer(v, from, to, amt) ==
    [v EXCEPT !.balance = Move(v.balance, from, to, amt),
              !.touched = @ \cup {from, to}]

Register(v, addr) ==
    [v EXCEPT !.contracts = @ \cup {addr}, !.instanceCount = addr]

\* Mutant: the counter goes back first and names the address to delete.
UnregisterSwapped(v, addr) ==
    [v EXCEPT !.contracts = @ \ {CreateContractAddress(v.instanceCount - 1)},
              !.instanceCount = @ - 1]

\* instantiateInternal takes the registration back when the funds fail.
Unregister(v, addr) ==
    [v EXCEPT !.contracts = @ \ {addr}, !.instanceCount = @ - 1]

IncrementNonce(v, sender) ==
    [v EXCEPT !.nonce[sender] = @ + 1, !.touched = @ \cup {sender}]

Write(v, addr, stamp) == [v EXCEPT !.store[addr] = @ \cup {stamp}]

Failed(err, gas) == [err |-> err, gas |-> gas, events |-> <<>>]
Succeeded(gas, events) == [err |-> "none", gas |-> gas, events |-> events]

Top == stack[Len(stack)]
Push(f) == Append(stack, f)
Pop == SubSeq(stack, 1, Len(stack) - 1)
SetTop(f) == [stack EXCEPT ![Len(stack)] = f]

NewCall(kind, from, to, stored, coins, gas, depth) ==
    [kind |-> kind, from |-> from, to |-> to, stored |-> stored,
     coins |-> coins, due |-> coins, gas |-> gas, depth |-> depth]

\* What call and ret hold when there is no call, or no result, in flight.
NoCall == NewCall("unsupported", 1, 1, TRUE, <<>>, 0, 0)
NoResult == Succeeded(0, <<>>)

\* The call returns r to its caller.
Return(r) ==
    /\ pc' = "ret"
    /\ ret' = r
    /\ call' = NoCall

\* The transfer event of a bank message, or the event of its own that the
\* contract returns from the run that just succeeded.
EventOf(stamp) ==
    [kind |-> call.kind, from |-> call.from, to |-> call.to,
     coins |-> call.coins, stamp |-> stamp]

\* dispatchSingleMessage puts an instantiate event in front of what the new
\* contract returned; the transaction's own instantiate has none.
Announcement ==
    IF call.kind = "instantiate" /\ call.depth > 0
    THEN <<[kind |-> "announced", from |-> call.to, to |-> call.to,
            coins |-> <<>>, stamp |-> 0]>>
    ELSE <<>>

RunEvents(stamp) == Announcement \o <<EventOf(stamp)>>

-----------------------------------------------------------------------------
(***************************************************************************)
(* The public entry points.  A nonce that does not match is refused before *)
(* anything else happens.                                                  *)
(***************************************************************************)
ValidateNonce(v, sender, nonce) == nonce = NoNonce \/ nonce = v.nonce[sender]

BeginTx(kind, sender, to, stored, coins, gasLimit, nonce) ==
    /\ pc = "idle"
    /\ tx' = [sender |-> sender, gasLimit |-> gasLimit, nonce |-> nonce,
              snap |-> Snapshot(vm),
              created |-> IF kind = "instantiate" THEN {to} ELSE {}]
    /\ IF ValidateNonce(vm, sender, nonce)
       THEN /\ calls < MaxCalls
            /\ call' = NewCall(kind, sender, to, stored, coins, gasLimit, 0)
            /\ pc' = "call"
            /\ UNCHANGED ret
       ELSE Return(Failed("nonce", 0))
    /\ UNCHANGED <<vm, stack, calls>>

NonceFor(sender) == {NoNonce, vm.nonce[sender], vm.nonce[sender] + 1}

Execute ==
    \E sender \in Users, to \in Addr, coins \in Funds, gasLimit \in GasLimits :
        \E nonce \in NonceFor(sender) :
            BeginTx("execute", sender, to, TRUE, coins, gasLimit, nonce)

Instantiate ==
    \E sender \in Users, stored \in BOOLEAN, coins \in Funds,
       gasLimit \in GasLimits :
        /\ vm.instanceCount < MaxInstances
        /\ \E nonce \in NonceFor(sender) :
            BeginTx("instantiate", sender,
                    CreateContractAddress(vm.instanceCount + 1),
                    stored, coins, gasLimit, nonce)

\* The caller's side of a finished transaction: a failed or simulated one is
\* restored from the snapshot taken before it, a successful signed one moves
\* the sender's nonce and has its touched accounts collected.
EndTx ==
    /\ pc = "ret" /\ stack = <<>>
    /\ vm' = IF ret.err = "none" /\ tx.nonce # NoNonce
             THEN [IncrementNonce(vm, tx.sender) EXCEPT !.touched = {}]
             ELSE Restore(vm, tx.snap)
    /\ tx' = [tx EXCEPT !.gasLimit = 0, !.nonce = NoNonce, !.snap = vm',
                        !.created = {}]
    /\ ret' = NoResult
    /\ pc' = "idle"
    /\ UNCHANGED <<call, stack, calls>>

-----------------------------------------------------------------------------
(***************************************************************************)
(* Entering a call: executeInternal, instantiateInternal, the bank message *)
(* of dispatchSingleMessage, and invokeReply.                              *)
(***************************************************************************)
EnterExecute ==
    /\ pc = "call" /\ call.kind = "execute"
    /\ IF call.to \in vm.contracts
       THEN pc' = "pay" /\ UNCHANGED <<call, ret>>
       ELSE Return(Failed("notfound", 0))
    /\ UNCHANGED <<vm, stack, tx, calls>>

EnterInstantiate ==
    /\ pc = "call" /\ call.kind = "instantiate"
    /\ IF call.stored
       THEN /\ vm' = Register(vm, call.to)
            /\ pc' = "pay"
            /\ UNCHANGED <<call, ret>>
       ELSE /\ Return(Failed("nocode", 0))
            /\ UNCHANGED vm
    /\ UNCHANGED <<stack, tx, calls>>

EnterBank ==
    /\ pc = "call" /\ call.kind = "bank"
    /\ pc' = "pay"
    /\ UNCHANGED <<vm, call, ret, stack, tx, calls>>

EnterReply ==
    /\ pc = "call" /\ call.kind = "reply"
    /\ IF call.to \in vm.contracts
       THEN pc' = "run" /\ UNCHANGED <<call, ret>>
       ELSE Return(Failed("notfound", 0))
    /\ UNCHANGED <<vm, stack, tx, calls>>

\* A message of another type, or a recipient that does not parse.
EnterUnsupported ==
    /\ pc = "call" /\ call.kind = "unsupported"
    /\ Return(Failed("unsupported", 0))
    /\ UNCHANGED <<vm, stack, tx, calls>>

(***************************************************************************)
(* transferFunds, one coin at a time.  A coin below zero stands for one    *)
(* the code refuses: another denomination, or an amount that does not      *)
(* parse.  The coins before it have moved by then.                         *)
(***************************************************************************)
RefuseCoin(err) ==
    /\ vm' = IF call.kind = "instantiate" THEN Unregister(vm, call.to) ELSE vm
    /\ Return(Failed(err, 0))

PayCoin ==
    /\ pc = "pay" /\ call.due # <<>>
    /\ LET amt == Head(call.due) IN
        \/ amt < 0 /\ RefuseCoin("coin")
        \/ amt > 0 /\ ~Affordable(vm, call.from, amt) /\ RefuseCoin("funds")
        \/ /\ amt = 0 \/ (amt > 0 /\ Affordable(vm, call.from, amt))
           /\ vm' = IF amt = 0 THEN vm
                    ELSE Transfer(vm, call.from, call.to, amt)
           /\ call' = [call EXCEPT !.due = Tail(@)]
           /\ UNCHANGED <<pc, ret>>
    /\ UNCHANGED <<stack, tx, calls>>

\* A bank message is done once its coins moved; a contract is entered.
Paid ==
    /\ pc = "pay" /\ call.due = <<>>
    /\ IF call.kind = "bank"
       THEN Return(Succeeded(0, <<EventOf(0)>>))
       ELSE pc' = "run" /\ UNCHANGED <<call, ret>>
    /\ UNCHANGED <<vm, stack, tx, calls>>

-----------------------------------------------------------------------------
(***************************************************************************)
(* Running an entry point: wasmvm's Execute, Instantiate or Reply, seen    *)
(* through the gas it reports, the writes it made and what it returns.     *)
(***************************************************************************)
EntryPointError == IF call.kind = "reply" THEN "reply" ELSE "contract"

\* wasmvm stops the contract before it writes anything: all gas is gone.
RunOutOfGas ==
    /\ pc = "run"
    /\ Return(Failed(IF call.kind = "reply" THEN "reply" ELSE "outofgas",
                     call.gas))
    /\ UNCHANGED <<vm, stack, tx, calls>>

\* The contract writes and then fails; its write is not undone here.
RunFails ==
    /\ pc = "run"
    /\ \E g \in GasCosts :
        /\ g <= call.gas
        /\ Return(Failed(EntryPointError, g))
    /\ vm' = Write(vm, call.to, calls + 1)
    /\ calls' = calls + 1
    /\ UNCHANGED <<stack, tx>>

NewFrame(g, n, stamp) ==
    [self |-> call.to, depth |-> call.depth, gas |-> call.gas, used |-> g,
     remaining |-> SafeSubGas(call.gas, g), pending |-> n,
     events |-> RunEvents(stamp), sub |-> <<>>, replyOn |-> "never",
     snap |-> NoSnap, awaiting |-> "none"]

\* The contract succeeds with n sub-messages; dispatchMessages refuses them
\* at the depth limit.
RunSucceeds ==
    /\ pc = "run"
    /\ \E g \in GasCosts, n \in 0..MaxMsgs :
        /\ g <= call.gas
        /\ CASE n = 0 ->
                  /\ Return(Succeeded(g, RunEvents(calls + 1)))
                  /\ UNCHANGED stack
             [] n > 0 /\ call.depth >= MaxDispatchDepth ->
                  /\ Return(Failed("depth", g))
                  /\ UNCHANGED stack
             [] OTHER ->
                  /\ stack' = Push(NewFrame(g, n, calls + 1))
                  /\ pc' = "loop"
                  /\ call' = NoCall
                  /\ UNCHANGED ret
    /\ vm' = Write(vm, call.to, calls + 1)
    /\ calls' = calls + 1
    /\ UNCHANGED tx

-----------------------------------------------------------------------------
(***************************************************************************)
(* dispatchMessages: the loop over the sub-messages of one response.       *)
(***************************************************************************)
Messages ==
    {NewCall("unsupported", Top.self, Top.self, TRUE, <<>>, Top.remaining,
             Top.depth + 1)}
    \cup {NewCall(kind, Top.self, to, TRUE, coins, Top.remaining,
                  Top.depth + 1) :
            kind \in {"bank", "execute"}, to \in Addr, coins \in Funds}
    \cup {NewCall("instantiate", Top.self, to, stored, coins, Top.remaining,
                  Top.depth + 1) :
            to \in Contract \cap {CreateContractAddress(vm.instanceCount + 1)},
            stored \in BOOLEAN, coins \in Funds}

DispatchMessage ==
    /\ pc = "loop" /\ Top.pending > 0
    /\ \E replyOn \in ReplyOn :
        stack' = SetTop([Top EXCEPT
                    !.pending = @ - 1,
                    !.replyOn = replyOn,
                    !.snap = IF CanCatchError(replyOn) THEN Snapshot(vm) ELSE NoSnap,
                    !.awaiting = "sub"])
    /\ \E m \in Messages : call' = m
    /\ pc' = "call"
    /\ UNCHANGED <<vm, ret, tx, calls>>

DispatchDone ==
    /\ pc = "loop" /\ Top.pending = 0
    /\ Return(Succeeded(Top.used, Top.events))
    /\ stack' = Pop
    /\ UNCHANGED <<vm, tx, calls>>

\* Mutant: the gas that came back is reported and not taken from the budget.
ChargeTopUsedOnly(f) == [f EXCEPT !.used = @ + ret.gas]

\* dr.GasUsed and remaining after a sub-message or a reply came back.
ChargeTop(f) ==
    [f EXCEPT !.used = @ + ret.gas, !.remaining = SafeSubGas(@, ret.gas)]

\* Mutant: the messages a reply returns run at the depth of its caller.
InvokeReplySameDepth(f, v, subEvents) ==
    /\ vm' = v
    /\ stack' = SetTop([f EXCEPT !.awaiting = "reply", !.sub = subEvents,
                                 !.snap = NoSnap])
    /\ call' = NewCall("reply", f.self, f.self, TRUE, <<>>, f.remaining, f.depth)
    /\ ret' = NoResult
    /\ pc' = "call"
    /\ UNCHANGED <<tx, calls>>

InvokeReply(f, v, subEvents) ==
    /\ vm' = v
    /\ stack' = SetTop([f EXCEPT !.awaiting = "reply", !.sub = subEvents,
                                 !.snap = NoSnap])
    /\ call' = NewCall("reply", f.self, f.self, TRUE, <<>>, f.remaining,
                       f.depth + 1)
    /\ ret' = NoResult
    /\ pc' = "call"
    /\ UNCHANGED <<tx, calls>>

Returned(awaiting) ==
    /\ pc = "ret" /\ stack # <<>>
    /\ Top.awaiting = awaiting

\* Mutant: a failure that can be caught puts the message back in the queue.
SubFailedRetried ==
    /\ Returned("sub") /\ ret.err # "none" /\ CanCatchError(Top.replyOn)
    /\ vm' = Restore(vm, Top.snap)
    /\ stack' = SetTop([ChargeTop(Top) EXCEPT !.pending = @ + 1, !.snap = NoSnap,
                                              !.awaiting = "none"])
    /\ ret' = NoResult
    /\ pc' = "loop"
    /\ UNCHANGED <<call, tx, calls>>

\* The sub-message failed and the contract asked to hear of it.
SubFailedCaught ==
    /\ Returned("sub") /\ ret.err # "none" /\ CanCatchError(Top.replyOn)
    /\ InvokeReply(ChargeTop(Top), Restore(vm, Top.snap), <<>>)

\* The sub-message failed and its error aborts the contract that sent it.
SubFailedAborts ==
    /\ Returned("sub") /\ ret.err # "none" /\ ~CanCatchError(Top.replyOn)
    /\ ret' = Failed(ret.err, ChargeTop(Top).used)
    /\ stack' = Pop
    /\ UNCHANGED <<vm, pc, call, tx, calls>>

SubSucceededReply ==
    /\ Returned("sub") /\ ret.err = "none" /\ WantsSuccess(Top.replyOn)
    /\ InvokeReply(ChargeTop(Top), vm, ret.events)

SubSucceededNoReply ==
    /\ Returned("sub") /\ ret.err = "none" /\ ~WantsSuccess(Top.replyOn)
    /\ stack' = SetTop([ChargeTop(Top) EXCEPT
                  !.events = @ \o ret.events, !.snap = NoSnap, !.awaiting = "none"])
    /\ ret' = NoResult
    /\ pc' = "loop"
    /\ UNCHANGED <<vm, call, tx, calls>>

ReplyFailed ==
    /\ Returned("reply") /\ ret.err # "none"
    /\ ret' = Failed(ret.err, ChargeTop(Top).used)
    /\ stack' = Pop
    /\ UNCHANGED <<vm, pc, call, tx, calls>>

\* Mutant: the reply's events replace those of the sub-message.
ReplySucceededDropsSub ==
    /\ Returned("reply") /\ ret.err = "none"
    /\ stack' = SetTop([ChargeTop(Top) EXCEPT
                  !.events = @ \o ret.events, !.sub = <<>>, !.awaiting = "none"])
    /\ ret' = NoResult
    /\ pc' = "loop"
    /\ UNCHANGED <<vm, call, tx, calls>>

ReplySucceeded ==
    /\ Returned("reply") /\ ret.err = "none"
    /\ stack' = SetTop([ChargeTop(Top) EXCEPT
                  !.events = @ \o Top.sub \o ret.events, !.sub = <<>>,
                  !.awaiting = "none"])
    /\ ret' = NoResult
    /\ pc' = "loop"
    /\ UNCHANGED <<vm, call, tx, calls>>

-----------------------------------------------------------------------------
Genesis ==
    [balance       |-> [a \in Addr |-> GenesisBalance],
     nonce         |-> [u \in Users |-> 0],
     contracts     |-> 1..GenesisContracts,
     instanceCount |-> GenesisContracts,
     touched       |-> {},
     store         |-> [c \in Contract |-> {}]]

Init ==
    /\ vm = Genesis
    /\ pc = "idle"
    /\ call = NoCall
    /\ ret = NoResult
    /\ \E u \in Users :
        tx = [sender |-> u, gasLimit |-> 0, nonce |-> NoNonce, snap |-> Genesis,
              created |-> {}]
    /\ stack = <<>>
    /\ calls = 0

Engine ==
    \/ EnterExecute \/ EnterInstantiate \/ EnterBank \/ EnterReply
    \/ EnterUnsupported
    \/ PayCoin \/ Paid
    \/ RunOutOfGas \/ RunFails \/ RunSucceeds
    \/ DispatchMessage \/ DispatchDone
    \/ SubFailedCaught \/ SubFailedAborts
    \/ SubSucceededReply \/ SubSucceededNoReply
    \/ ReplyFailed \/ ReplySucceeded
    \/ EndTx

Next == Execute \/ Instantiate \/ Engine

Spec == Init /\ [][Next]_vars

\* A call that was begun is run: the Go code never waits inside a call.
Fairness == WF_vars(Engine)
FairSpec == Spec /\ Fairness

-----------------------------------------------------------------------------
(***************************************************************************)
(* Properties.                                                             *)
(***************************************************************************)
TypeOK ==
    /\ vm \in VMState
    /\ pc \in {"idle", "call", "pay", "run", "loop", "ret"}
    /\ call \in Call
    /\ ret \in Result
    /\ stack \in Seq(Frame)
    /\ tx \in Tx
    /\ calls \in Nat

\* The gas budget of the innermost activation, or of the transaction when no
\* activation is waiting: what the call in flight may consume.
Budget == IF stack = <<>> THEN tx.gasLimit ELSE Top.remaining

\* No call tree consumes more than it was given, however sub-messages,
\* replies and caught failures nest (the gas threading of dispatchMessages):
\* every activation's used and remaining gas add up to its budget, its
\* budget is within its caller's remaining gas, and the result on its way up
\* is within the budget of the call that made it.
GasWithinBudget ==
    /\ \A i \in 1..Len(stack) :
        /\ stack[i].used + stack[i].remaining = stack[i].gas
        /\ i > 1 => stack[i].gas <= stack[i-1].remaining
    /\ stack # <<>> => stack[1].gas <= tx.gasLimit
    /\ pc \in {"call", "pay", "run"} => call.gas <= Budget
    /\ pc = "ret" => ret.gas <= Budget

\* Recursion is bounded (maxDispatchDepth): a frame's depth is its position,
\* through sub-messages and through the messages replies return alike, so at
\* most MaxDispatchDepth activations of dispatchMessages nest.
DepthBounded ==
    /\ \A i \in 1..Len(stack) : stack[i].depth = i - 1
    /\ Len(stack) <= MaxDispatchDepth

\* Every account a transaction changed is in touched, at any moment and
\* after any number of nested rollbacks, so the handler that persists the
\* touched accounts (TouchedAddresses) misses none.  The same holds since
\* every snapshot a later Restore may return to.
ChangedSince(s) == {a \in Addr : vm.balance[a] # s.balance[a]}
TouchedCoversChanges ==
    pc # "idle" =>
        /\ ChangedSince(tx.snap) \subseteq vm.touched
        /\ \A i \in 1..Len(stack) :
            stack[i].snap # NoSnap =>
                ChangedSince(stack[i].snap) \subseteq vm.touched

\* A new contract gets an address no live contract has, and finds storage
\* that nobody wrote, also when the counter went back with a rollback and
\* the address is given out a second time (instantiateInternal).
FreshInstances ==
    /\ vm.contracts \subseteq 1..vm.instanceCount
    /\ \A c \in Contract : c > vm.instanceCount => vm.store[c] = {}

\* A contract that is waiting for a sub-message or a reply is registered, so
\* invokeReply's lookup cannot miss, whatever was rolled back meanwhile.
CallersRegistered ==
    \A i \in 1..Len(stack) : stack[i].self \in vm.contracts

\* transferFunds only moves tokens: their sum never changes, not even when a
\* contract pays itself or when a payment stops at its second coin.
SupplyConserved == Total(vm.balance) = GenesisBalance * Cardinality(Addr)

TxSucceeded == pc = "ret" /\ stack = <<>> /\ ret.err = "none"

\* The events of entry-point runs, and the runs they name.
Runs(events) == {i \in DOMAIN events : events[i].stamp # 0}
Stamps(events) == {events[i].stamp : i \in Runs(events)}
Written(from, v) == UNION {v.store[c] \ from.store[c] : c \in Contract}

\* The events of a successful transaction of contracts that return one event
\* per run name exactly the runs whose writes are in storage, in the order
\* they ran, and no run that was rolled back (the snapshots and the event
\* merging of dispatchMessages).
RunsReported ==
    TxSucceeded =>
        /\ Stamps(ret.events) = Written(tx.snap, vm)
        /\ \A i, j \in Runs(ret.events) :
            i < j => ret.events[i].stamp < ret.events[j].stamp

\* What the transfers and the contracts' own events say that a received and
\* that it paid, the contracts that report their instantiation, and the
\* contracts the engine announces.
Received(events, a) ==
    Total([i \in DOMAIN events |->
             IF events[i].to = a THEN Total(events[i].coins) ELSE 0])
Spent(events, a) ==
    Total([i \in DOMAIN events |->
             IF events[i].from = a THEN Total(events[i].coins) ELSE 0])
Created(events) ==
    {events[i].to : i \in {j \in DOMAIN events : events[j].kind = "instantiate"}}
Announced(events) ==
    {events[i].to : i \in {j \in DOMAIN events : events[j].kind = "announced"}}

\* The funds contracts are told of are the funds they got: in a successful
\* transaction the MessageInfo of the runs that survive, as contracts that
\* report it return it, and the engine's transfer events give every balance
\* from the one before.  No payment of a rolled-back sub-message survives,
\* and none stays whose payee's run was undone.  (The engine's events alone
\* do not tell balances: the funds of a wasm message are in none of them.)
BalancesExplained ==
    TxSucceeded =>
        \A a \in Addr :
            vm.balance[a] + Spent(ret.events, a) =
                tx.snap.balance[a] + Received(ret.events, a)

\* Whoever follows the instantiate events of dispatchSingleMessage and the
\* address in InstantiateResult knows the new contracts: exactly those that
\* are registered when the transaction succeeds, none that was rolled back.
ContractsAnnounced ==
    TxSucceeded =>
        vm.contracts \ tx.snap.contracts = Announced(ret.events) \cup tx.created

\* Every transaction ends: no chain of messages, replies and caught errors
\* keeps the engine busy for ever.
TxTerminates == pc # "idle" ~> pc = "idle"

\* SPEC.md on replies: "Reply errors are not catchable ... the entire
\* transaction MUST abort", so the error never reaches a reply handler.
ReplyErrorAborts ==
    [][pc = "ret" /\ ret.err = "reply" => pc' \in {"ret", "idle"}]_vars
=============================================================================
