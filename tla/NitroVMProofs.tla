--------------------------- MODULE NitroVMProofs ---------------------------
(***************************************************************************)
(* Proofs about the execution engine, for any number of accounts and       *)
(* contracts, any gas limits and costs, any funds, any depth limit and any *)
(* number of sub-messages.                                                 *)
(***************************************************************************)
EXTENDS NitroVM, SumProofs

-----------------------------------------------------------------------------
(***************************************************************************)
(* The stack.                                                              *)
(***************************************************************************)

\* SetTop replaces the innermost activation only.
LEMMA SetTopFacts ==
    ASSUME NEW S, stack \in Seq(S), stack # <<>>, NEW f \in S
    PROVE  /\ SetTop(f) \in Seq(S)
           /\ SetTop(f) # <<>>
           /\ Len(SetTop(f)) = Len(stack)
           /\ SetTop(f)[Len(stack)] = f
           /\ \A i \in 1..Len(stack) : i # Len(stack) => SetTop(f)[i] = stack[i]
BY DEF SetTop

\* Pop removes the innermost activation only.
LEMMA PopFacts ==
    ASSUME NEW S, stack \in Seq(S), stack # <<>>
    PROVE  /\ Pop \in Seq(S)
           /\ Len(Pop) = Len(stack) - 1
           /\ \A i \in 1..Len(Pop) : Pop[i] = stack[i]
<1>1. PICK m \in Nat : m = Len(stack) - 1
  OBVIOUS
<1>2. /\ SubSeq(stack, 1, m) \in Seq(S)
      /\ Len(SubSeq(stack, 1, m)) = m
      /\ \A i \in 1..m : SubSeq(stack, 1, m)[i] = stack[i]
  BY <1>1
<1>3. QED  BY <1>1, <1>2 DEF Pop

\* Push adds an activation and keeps the others.
LEMMA PushFacts ==
    ASSUME NEW S, stack \in Seq(S), NEW f \in S
    PROVE  /\ Push(f) \in Seq(S)
           /\ Push(f) # <<>>
           /\ Len(Push(f)) = Len(stack) + 1
           /\ Push(f)[Len(stack) + 1] = f
           /\ \A i \in 1..Len(stack) : Push(f)[i] = stack[i]
BY DEF Push

\* The innermost activation.
LEMMA TopFacts ==
    ASSUME stack \in Seq(Frame), stack # <<>>
    PROVE  Len(stack) \in Nat /\ Len(stack) \in 1..Len(stack) /\ Top \in Frame
BY DEF Top

-----------------------------------------------------------------------------
(***************************************************************************)
(* What the helpers do to the VM's state.                                  *)
(***************************************************************************)

\* A snapshot is a copy, and Restore gives exactly the snapshot back.
LEMMA SnapshotIsCopy ==
    ASSUME NEW v, NEW s \in VMState
    PROVE  Snapshot(s) = s /\ Restore(v, s) = s
BY DEF Snapshot, Restore, VMState

LEMMA TransferFacts ==
    ASSUME NEW v \in VMState, NEW from \in Addr, NEW to \in Addr, NEW amt \in Nat,
           Affordable(v, from, amt)
    PROVE  LET w == Transfer(v, from, to, amt)
           IN  /\ w \in VMState
               /\ w.contracts = v.contracts
               /\ w.instanceCount = v.instanceCount
               /\ w.store = v.store
               /\ v.touched \subseteq w.touched
               /\ \A a \in Addr : w.balance[a] # v.balance[a] => a \in w.touched
<1> DEFINE b == Move(v.balance, from, to, amt)
           t == v.touched \cup {from, to}
<1>1. b \in [Addr -> Nat] /\ \A a \in Addr : b[a] # v.balance[a] => a \in {from, to}
  BY DEF Move, Affordable, VMState
<1>2. t \in SUBSET Addr
  BY DEF VMState
<1>3. Transfer(v, from, to, amt) = [v EXCEPT !.balance = b, !.touched = t]
  BY DEF Transfer
<1> HIDE DEF b
<1>4. QED  BY <1>1, <1>2, <1>3 DEF VMState

LEMMA RegisterFacts ==
    ASSUME NEW v \in VMState, NEW c \in Contract
    PROVE  LET w == Register(v, c)
           IN  /\ w \in VMState
               /\ w.contracts = v.contracts \cup {c}
               /\ w.instanceCount = c
               /\ w.store = v.store
               /\ w.balance = v.balance
               /\ w.touched = v.touched
<1>1. c \in 0..MaxInstances /\ v.contracts \cup {c} \in SUBSET Contract
  BY BoundsAssumption DEF VMState, Contract
<1>2. Register(v, c) = [v EXCEPT !.contracts = v.contracts \cup {c}, !.instanceCount = c]
  BY DEF Register
<1>3. QED  BY <1>1, <1>2 DEF VMState

LEMMA UnregisterFacts ==
    ASSUME NEW v \in VMState, NEW c \in Contract, v.instanceCount = c
    PROVE  LET w == Unregister(v, c)
           IN  /\ w \in VMState
               /\ w.contracts = v.contracts \ {c}
               /\ w.instanceCount = c - 1
               /\ w.store = v.store
               /\ w.balance = v.balance
               /\ w.touched = v.touched
<1>1. c - 1 \in 0..MaxInstances /\ v.contracts \ {c} \in SUBSET Contract
  BY BoundsAssumption DEF VMState, Contract
<1>2. Unregister(v, c) =
        [v EXCEPT !.contracts = v.contracts \ {c}, !.instanceCount = c - 1]
  BY DEF Unregister
<1>3. QED  BY <1>1, <1>2 DEF VMState

LEMMA WriteFacts ==
    ASSUME NEW v \in VMState, NEW c \in Contract, NEW stamp \in Nat
    PROVE  LET w == Write(v, c, stamp)
           IN  /\ w \in VMState
               /\ w.contracts = v.contracts
               /\ w.instanceCount = v.instanceCount
               /\ w.balance = v.balance
               /\ w.touched = v.touched
               /\ \A d \in Contract : d # c => w.store[d] = v.store[d]
<1> DEFINE st == [v.store EXCEPT ![c] = @ \cup {stamp}]
<1>1. st \in [Contract -> SUBSET Nat] /\ \A d \in Contract : d # c => st[d] = v.store[d]
  BY DEF VMState
<1>2. Write(v, c, stamp) = [v EXCEPT !.store = st]
  BY DEF Write
<1> HIDE DEF st
<1>3. QED  BY <1>1, <1>2 DEF VMState

\* The state a committed transaction leaves: the sender's nonce is one up and
\* the marks are gone.
LEMMA CommittedFacts ==
    ASSUME NEW v \in VMState, NEW u \in Users
    PROVE  LET w == [IncrementNonce(v, u) EXCEPT !.touched = {}]
           IN  /\ w \in VMState
               /\ w.contracts = v.contracts
               /\ w.instanceCount = v.instanceCount
               /\ w.store = v.store
               /\ w.balance = v.balance
<1> DEFINE n == [v.nonce EXCEPT ![u] = @ + 1]
           t == v.touched \cup {u}
           w == [IncrementNonce(v, u) EXCEPT !.touched = {}]
<1>1. n \in [Users -> Nat]
  BY DEF VMState
<1>2. IncrementNonce(v, u) = [v EXCEPT !.nonce = n, !.touched = t]
  BY DEF IncrementNonce
<1> HIDE DEF n
<1>3. /\ w = [v EXCEPT !.nonce = n, !.touched = {}]
  BY <1>2 DEF VMState
<1>4. QED  BY <1>1, <1>3 DEF VMState

-----------------------------------------------------------------------------
(***************************************************************************)
(* Type correctness.  TypeOK is not inductive: a frame's contract is the   *)
(* recipient of the call that pushed it, which is a contract only because  *)
(* the call was entered, and Restore takes a snapshot only because the     *)
(* frame that asks for it took one.  Control adds what pc says about the   *)
(* stack and about the call in flight.                                     *)
(***************************************************************************)
StackControl(s, p) ==
    /\ p = "idle" => s = <<>>
    /\ p = "loop" => s # <<>>
    /\ \A i \in 1..Len(s) :
        /\ s[i].awaiting = "none" <=> i = Len(s) /\ p = "loop"
        /\ s[i].awaiting = "sub" /\ CanCatchError(s[i].replyOn) => s[i].snap \in VMState

CallControl(c, p, v) ==
    /\ p = "pay" => c.kind \in {"execute", "instantiate", "bank"}
    /\ p = "run" => c.kind \in {"execute", "instantiate", "reply"}
    /\ p \in {"pay", "run"} /\ c.kind # "bank" => c.to \in v.contracts
    /\ p = "call" /\ c.kind = "instantiate" =>
        c.to \in Contract /\ c.to = v.instanceCount + 1
    /\ p = "pay" /\ c.kind = "instantiate" =>
        c.to \in Contract /\ c.to = v.instanceCount

Control == StackControl(stack, pc) /\ CallControl(call, pc, vm)

TInv == TypeOK /\ Control

\* Records built from parts of the right type.
LEMMA NewCallType ==
    ASSUME NEW kind \in Kinds, NEW from \in Addr, NEW to \in Addr,
           NEW stored \in BOOLEAN, NEW coins \in Seq(Int), NEW gas \in Nat,
           NEW depth \in Nat
    PROVE  /\ NewCall(kind, from, to, stored, coins, gas, depth) \in Call
           /\ NewCall(kind, from, to, stored, coins, gas, depth).kind = kind
           /\ NewCall(kind, from, to, stored, coins, gas, depth).from = from
           /\ NewCall(kind, from, to, stored, coins, gas, depth).to = to
           /\ NewCall(kind, from, to, stored, coins, gas, depth).gas = gas
           /\ NewCall(kind, from, to, stored, coins, gas, depth).depth = depth
BY DEF NewCall, Call

LEMMA FailedType ==
    ASSUME NEW err \in Errors, NEW gas \in Nat
    PROVE  /\ Failed(err, gas) \in Result
           /\ Failed(err, gas).gas = gas /\ Failed(err, gas).err = err
BY DEF Failed, Result

LEMMA SucceededType ==
    ASSUME NEW gas \in Nat, NEW events \in Seq(Event)
    PROVE  /\ Succeeded(gas, events) \in Result
           /\ Succeeded(gas, events).gas = gas
           /\ Succeeded(gas, events).events = events
BY DEF Succeeded, Result, Errors

LEMMA NothingInFlight ==
    NoCall \in Call /\ NoResult \in Result
<1>1. 1 \in Addr /\ <<>> \in Seq(Int) /\ "unsupported" \in Kinds
  BY BoundsAssumption DEF Addr, Contract, Kinds
<1>2. NoCall \in Call
  BY <1>1 DEF NoCall, NewCall, Call
<1>3. NoResult \in Result
  BY DEF NoResult, Succeeded, Result, Errors
<1>4. QED  BY <1>2, <1>3

LEMMA EventOfType ==
    ASSUME call \in Call, NEW stamp \in Nat
    PROVE  <<EventOf(stamp)>> \in Seq(Event)
<1>1. EventOf(stamp) \in Event
  BY DEF EventOf, Event, Call
<1>2. QED  BY <1>1

LEMMA RunEventsType ==
    ASSUME call \in Call, NEW stamp \in Nat
    PROVE  /\ Announcement \in Seq(Event) /\ <<EventOf(stamp)>> \in Seq(Event)
           /\ RunEvents(stamp) \in Seq(Event)
<1> DEFINE e == [kind |-> "announced", from |-> call.to, to |-> call.to,
                 coins |-> <<>>, stamp |-> 0]
<1>1. e \in Event
  <2>1. <<>> \in Seq(Int) /\ 0 \in Nat /\ call.to \in Addr
    BY DEF Call
  <2>2. QED  BY <2>1 DEF Event
<1>2. Announcement = <<e>> \/ Announcement = <<>>
  BY DEF Announcement
<1> HIDE DEF e
<1>3. Announcement \in Seq(Event)
  <2>1. <<e>> \in Seq(Event) /\ <<>> \in Seq(Event)
    BY <1>1
  <2>2. QED  BY <1>2, <2>1
<1>4. QED  BY <1>3, EventOfType DEF RunEvents

LEMMA NewFrameFacts ==
    ASSUME call \in Call, call.to \in Contract, NEW g \in Nat, g <= call.gas,
           NEW n \in 0..MaxMsgs, NEW stamp \in Nat
    PROVE  LET f == NewFrame(g, n, stamp)
           IN  /\ f \in Frame
               /\ f.awaiting = "none"
               /\ f.snap = NoSnap
               /\ f.self = call.to
               /\ f.depth = call.depth
               /\ f.gas = call.gas
               /\ f.used + f.remaining = f.gas
               /\ f.events = RunEvents(stamp) /\ f.sub = <<>>
<1>1. RunEvents(stamp) \in Seq(Event)
  BY RunEventsType
<1>2. /\ call.gas \in Nat /\ call.depth \in Nat
      /\ SafeSubGas(call.gas, g) \in Nat
      /\ g + SafeSubGas(call.gas, g) = call.gas
  BY DEF Call, SafeSubGas
<1>3. QED  BY <1>1, <1>2 DEF NewFrame, Frame, ReplyOn

LEMMA ChargeTopFacts ==
    ASSUME NEW f \in Frame, ret \in Result
    PROVE  LET c == ChargeTop(f)
           IN  /\ c \in Frame
               /\ c.used = f.used + ret.gas
               /\ ret.gas <= f.remaining => c.remaining = f.remaining - ret.gas
               /\ c.self = f.self
               /\ c.depth = f.depth
               /\ c.gas = f.gas
               /\ c.events = f.events
               /\ c.sub = f.sub
               /\ c.snap = f.snap
               /\ c.replyOn = f.replyOn
               /\ c.awaiting = f.awaiting
               /\ c.pending = f.pending
<1>1. /\ f.used + ret.gas \in Nat
      /\ SafeSubGas(f.remaining, ret.gas) \in Nat
      /\ ret.gas <= f.remaining => SafeSubGas(f.remaining, ret.gas) = f.remaining - ret.gas
  BY DEF Frame, Result, SafeSubGas
<1>2. ChargeTop(f) = [f EXCEPT !.used = f.used + ret.gas,
                               !.remaining = SafeSubGas(f.remaining, ret.gas)]
  BY DEF ChargeTop
<1>3. QED  BY <1>1, <1>2 DEF Frame

\* The frame of an activation that is waiting for its contract's reply.
LEMMA ReplyingFacts ==
    ASSUME NEW f \in Frame, NEW events \in Seq(Event)
    PROVE  LET d == [f EXCEPT !.awaiting = "reply", !.sub = events, !.snap = NoSnap]
           IN  /\ d \in Frame
               /\ d.awaiting = "reply" /\ d.snap = NoSnap
               /\ d.self = f.self /\ d.depth = f.depth /\ d.gas = f.gas
               /\ d.used = f.used /\ d.remaining = f.remaining
               /\ d.events = f.events /\ d.sub = events
BY DEF Frame

-----------------------------------------------------------------------------
(***************************************************************************)
(* The steps in kinds: a transaction begins, a call proceeds, returns or   *)
(* pushes an activation, an activation dispatches, pops, replies or        *)
(* resumes.  The proofs of the invariants go by these kinds and open no    *)
(* action again.                                                           *)
(***************************************************************************)
BeginStep ==
    /\ pc = "idle" /\ stack = <<>>
    /\ UNCHANGED <<vm, stack, calls>>
    /\ tx' \in Tx /\ tx'.snap = vm
    /\ \/ /\ pc' = "call" /\ UNCHANGED ret
          /\ call' \in Call
          /\ call'.gas = tx'.gasLimit
          /\ call'.depth = 0
          /\ call'.kind # "reply" /\ call'.due = call'.coins
          /\ call'.kind = "instantiate" =>
               call'.to \in Contract /\ call'.to = vm.instanceCount + 1
          /\ tx'.created = IF call'.kind = "instantiate" THEN {call'.to} ELSE {}
       \/ /\ pc' = "ret" /\ call' = NoCall
          /\ ret' \in Result /\ ret'.gas = 0 /\ ret'.err # "none"

\* The coin at the head of due moves; an amount of zero moves nothing.
CoinStep ==
    /\ call.due # <<>> /\ call'.due = Tail(call.due)
    /\ Head(call.due) \in Nat /\ Affordable(vm, call.from, Head(call.due))
    /\ vm' = IF Head(call.due) = 0 THEN vm
             ELSE Transfer(vm, call.from, call.to, Head(call.due))

ProceedStep ==
    /\ pc \in {"call", "pay"} /\ pc' \in {"pay", "run"}
    /\ UNCHANGED <<ret, stack, tx, calls>>
    /\ call' \in Call
    /\ call'.kind = call.kind /\ call'.from = call.from /\ call'.to = call.to
    /\ call'.gas = call.gas /\ call'.depth = call.depth
    /\ CallControl(call', pc', vm')
    /\ \/ vm' = vm
       \/ /\ pc = "call" /\ pc' = "pay" /\ call.kind = "instantiate"
          /\ vm' = Register(vm, call.to)
       \/ /\ pc = "pay"
          /\ \E amt \in Nat : /\ Affordable(vm, call.from, amt)
                              /\ vm' = Transfer(vm, call.from, call.to, amt)
    /\ call'.coins = call.coins
    /\ \/ /\ pc = "call" /\ call'.due = call.due
          /\ pc' = IF call.kind = "reply" THEN "run" ELSE "pay"
          /\ vm' = IF call.kind = "instantiate" THEN Register(vm, call.to) ELSE vm
       \/ /\ pc = "pay" /\ pc' = "pay" /\ CoinStep
       \/ /\ pc = "pay" /\ pc' = "run" /\ vm' = vm
          /\ call.due = <<>> /\ call'.due = <<>>

ReturnStep ==
    /\ pc \in {"call", "pay", "run"} /\ pc' = "ret"
    /\ UNCHANGED <<stack, tx>>
    /\ call' = NoCall
    /\ ret' \in Result /\ ret'.gas <= call.gas
    /\ \/ vm' = vm /\ calls' = calls
       \/ /\ pc = "pay" /\ call.kind = "instantiate"
          /\ vm' = Unregister(vm, call.to) /\ calls' = calls
       \/ /\ pc = "run"
          /\ vm' = Write(vm, call.to, calls + 1) /\ calls' = calls + 1
    /\ \/ ret'.err # "none"
       \/ /\ pc = "pay" /\ call.kind = "bank" /\ call.due = <<>>
          /\ vm' = vm /\ calls' = calls
          /\ ret'.events = <<EventOf(0)>>
       \/ /\ pc = "run"
          /\ vm' = Write(vm, call.to, calls + 1) /\ calls' = calls + 1
          /\ ret'.events = RunEvents(calls + 1)

PushStep ==
    /\ pc = "run" /\ pc' = "loop"
    /\ UNCHANGED <<ret, tx>>
    /\ call' = NoCall
    /\ vm' = Write(vm, call.to, calls + 1) /\ calls' = calls + 1
    /\ call.depth < MaxDispatchDepth
    /\ \E f \in Frame :
        /\ stack' = Push(f)
        /\ f.awaiting = "none" /\ f.snap = NoSnap
        /\ f.self = call.to /\ f.depth = call.depth /\ f.gas = call.gas
        /\ f.used + f.remaining = f.gas
        /\ f.events = RunEvents(calls + 1) /\ f.sub = <<>>

DispatchStep ==
    /\ pc = "loop" /\ pc' = "call" /\ stack # <<>>
    /\ UNCHANGED <<vm, ret, tx, calls>>
    /\ \E d \in Frame :
        /\ stack' = SetTop(d)
        /\ d.awaiting = "sub"
        /\ d.snap = IF CanCatchError(d.replyOn) THEN vm ELSE NoSnap
        /\ d.self = Top.self /\ d.depth = Top.depth /\ d.gas = Top.gas
        /\ d.used = Top.used /\ d.remaining = Top.remaining
        /\ d.events = Top.events /\ d.sub = Top.sub
    /\ call' \in Call
    /\ call'.gas = Top.remaining /\ call'.depth = Top.depth + 1
    /\ call'.kind # "reply" /\ call'.due = call'.coins
    /\ call'.kind = "instantiate" =>
         call'.to \in Contract /\ call'.to = vm.instanceCount + 1

PopStep ==
    /\ pc \in {"loop", "ret"} /\ pc' = "ret" /\ stack # <<>>
    /\ UNCHANGED <<vm, tx, calls>>
    /\ stack' = Pop
    /\ call' \in Call
    /\ ret' \in Result
    /\ ret'.gas = Top.used + (IF pc = "loop" THEN 0 ELSE ret.gas)
    /\ IF pc = "loop" THEN ret'.events = Top.events ELSE ret'.err # "none"

Charged(d) ==
    /\ d.self = Top.self /\ d.depth = Top.depth /\ d.gas = Top.gas
    /\ d.used = Top.used + ret.gas
    /\ ret.gas <= Top.remaining => d.remaining = Top.remaining - ret.gas

ReplyStep ==
    /\ pc = "ret" /\ pc' = "call" /\ stack # <<>>
    /\ UNCHANGED <<tx, calls>>
    /\ Top.awaiting = "sub"
    /\ \/ vm' = vm /\ ret.err = "none"
       \/ CanCatchError(Top.replyOn) /\ vm' = Top.snap /\ ret.err # "none"
    /\ \E d \in Frame :
        /\ stack' = SetTop(d)
        /\ d.awaiting = "reply" /\ d.snap = NoSnap
        /\ Charged(d)
        /\ call'.gas = d.remaining
        /\ d.events = Top.events
        /\ d.sub = IF ret.err = "none" THEN ret.events ELSE <<>>
    /\ call' \in Call
    /\ call'.kind = "reply" /\ call'.depth = Top.depth + 1
    /\ call'.coins = <<>> /\ call'.due = <<>>
    /\ ret' \in Result

ResumeStep ==
    /\ pc = "ret" /\ pc' = "loop" /\ stack # <<>>
    /\ UNCHANGED <<vm, call, tx, calls>>
    /\ \E d \in Frame :
        /\ stack' = SetTop(d)
        /\ d.awaiting = "none" /\ d.snap \in {Top.snap, NoSnap}
        /\ Charged(d)
        /\ \/ /\ Top.awaiting = "sub" /\ d.snap = NoSnap
              /\ d.events = Top.events \o ret.events /\ d.sub = Top.sub
           \/ /\ Top.awaiting = "reply"
              /\ d.events = Top.events \o Top.sub \o ret.events /\ d.sub = <<>>
    /\ ret' \in Result /\ ret.err = "none"

EndStep ==
    /\ pc = "ret" /\ pc' = "idle" /\ stack = <<>>
    /\ UNCHANGED <<call, stack, calls>>
    /\ ret' = NoResult
    /\ \/ vm' = tx.snap
       \/ /\ vm'.contracts = vm.contracts /\ vm'.instanceCount = vm.instanceCount
          /\ vm'.store = vm.store /\ vm'.balance = vm.balance
    /\ vm' \in VMState
    /\ tx' \in Tx /\ tx'.snap = vm' /\ tx'.gasLimit = 0

LEMMA BeginTxFacts ==
    ASSUME TInv, Execute \/ Instantiate
    PROVE  BeginStep
<1>1. vm \in VMState /\ vm.instanceCount \in Nat /\ vm.nonce \in [Users -> Nat]
  BY DEF TInv, TypeOK, VMState
<1>2. ASSUME NEW kind \in {"execute", "instantiate"}, NEW sender \in Users,
             NEW to \in Addr, NEW stored \in BOOLEAN, NEW coins \in Funds,
             NEW gasLimit \in GasLimits, NEW nonce \in NonceFor(sender),
             kind = "instantiate" => to \in Contract /\ to = vm.instanceCount + 1,
             BeginTx(kind, sender, to, stored, coins, gasLimit, nonce)
      PROVE  BeginStep
  <2>1. /\ pc = "idle" /\ stack = <<>>
        /\ UNCHANGED <<vm, stack, calls>>
    BY <1>2 DEF BeginTx, TInv, Control, StackControl
  <2>2. nonce \in Int /\ gasLimit \in Nat /\ coins \in Seq(Int) /\ sender \in Addr
    BY <1>1, GasAssumption, FundsAssumption DEF NonceFor, NoNonce, Addr
  <2>3. /\ tx' \in Tx /\ tx'.snap = vm /\ tx'.gasLimit = gasLimit
        /\ tx'.created = IF kind = "instantiate" THEN {to} ELSE {}
    <3>1. (IF kind = "instantiate" THEN {to} ELSE {}) \in SUBSET Contract
      BY <1>2
    <3>2. QED  BY <1>1, <1>2, <2>2, <3>1, SnapshotIsCopy DEF BeginTx, Tx
  <2>4. CASE ValidateNonce(vm, sender, nonce)
    <3>1. call' = NewCall(kind, sender, to, stored, coins, gasLimit, 0)
      BY <1>2, <2>4 DEF BeginTx
    <3>2. /\ call' \in Call /\ call'.kind = kind /\ call'.to = to
          /\ call'.gas = gasLimit /\ call'.depth = 0
          /\ call'.kind # "reply" /\ call'.due = call'.coins
      BY <2>2, <3>1 DEF NewCall, Call, Kinds
    <3>3. QED  BY <1>2, <2>1, <2>3, <2>4, <3>2 DEF BeginTx, BeginStep
  <2>5. CASE ~ValidateNonce(vm, sender, nonce)
    <3>1. pc' = "ret" /\ call' = NoCall /\ ret' = Failed("nonce", 0)
      BY <1>2, <2>5 DEF BeginTx, Return
    <3>2. QED  BY <2>1, <2>3, <3>1, FailedType DEF Errors, BeginStep
  <2>6. QED  BY <2>4, <2>5
<1>3. CASE Execute
  <2>1. PICK sender \in Users, to \in Addr, coins \in Funds, gasLimit \in GasLimits :
            \E nonce \in NonceFor(sender) :
                BeginTx("execute", sender, to, TRUE, coins, gasLimit, nonce)
    BY <1>3 DEF Execute
  <2>2. PICK nonce \in NonceFor(sender) :
            BeginTx("execute", sender, to, TRUE, coins, gasLimit, nonce)
    BY <2>1
  <2>3. "execute" \in {"execute", "instantiate"} /\ "execute" # "instantiate"
    OBVIOUS
  <2>4. QED  BY <1>2, <2>2, <2>3
<1>4. CASE Instantiate
  <2>1. PICK sender \in Users, stored \in BOOLEAN, coins \in Funds,
             gasLimit \in GasLimits :
            /\ vm.instanceCount < MaxInstances
            /\ \E nonce \in NonceFor(sender) :
                BeginTx("instantiate", sender, vm.instanceCount + 1,
                        stored, coins, gasLimit, nonce)
    BY <1>4 DEF Instantiate, CreateContractAddress
  <2>2. PICK nonce \in NonceFor(sender) :
            BeginTx("instantiate", sender, vm.instanceCount + 1,
                    stored, coins, gasLimit, nonce)
    BY <2>1
  <2>3. vm.instanceCount + 1 \in Contract /\ vm.instanceCount + 1 \in Addr
    BY <1>1, <2>1, BoundsAssumption DEF Contract, Addr
  <2>4. QED  BY <1>2, <2>2, <2>3
<1>5. QED  BY <1>3, <1>4

\* What TInv says of the call in flight.
LEMMA CallFacts ==
    ASSUME TInv
    PROVE  /\ vm \in VMState /\ call \in Call /\ ret \in Result
           /\ stack \in Seq(Frame) /\ tx \in Tx /\ calls \in Nat
           /\ vm.contracts \in SUBSET Contract /\ vm.instanceCount \in Nat
           /\ call.gas \in Nat /\ call.depth \in Nat
           /\ call.from \in Addr /\ call.to \in Addr
           /\ call.due \in Seq(Int)
           /\ pc = "run" => call.to \in Contract /\ call.to \in vm.contracts
BY DEF TInv, TypeOK, VMState, Call, Control, CallControl

LEMMA EnterFacts ==
    ASSUME TInv,
           EnterExecute \/ EnterInstantiate \/ EnterBank \/ EnterReply
             \/ EnterUnsupported
    PROVE  ProceedStep \/ ReturnStep
<1>1. /\ vm \in VMState /\ call \in Call /\ call.gas \in Nat
      /\ call.kind = "instantiate" /\ pc = "call" =>
            call.to \in Contract /\ call.to = vm.instanceCount + 1
  BY CallFacts DEF TInv, Control, CallControl
<1>2. ASSUME NEW err \in Errors \ {"none"}, Return(Failed(err, 0)), pc = "call",
             UNCHANGED <<vm, stack, tx, calls>>
      PROVE  ReturnStep
  <2>1. ret' \in Result /\ ret'.gas = 0 /\ ret'.err # "none"
    BY <1>2, FailedType DEF Return
  <2>2. QED  BY <1>1, <1>2, <2>1 DEF Return, ReturnStep
<1>3. CASE EnterExecute
  <2>1. CASE call.to \in vm.contracts
    BY <1>1, <1>3, <2>1 DEF EnterExecute, ProceedStep, CallControl
  <2>2. CASE call.to \notin vm.contracts
    BY <1>2, <1>3, <2>2 DEF EnterExecute, Errors
  <2>3. QED  BY <2>1, <2>2
<1>4. CASE EnterInstantiate
  <2>1. CASE call.stored
    <3>1. /\ pc = "call" /\ pc' = "pay" /\ call.kind = "instantiate"
          /\ vm' = Register(vm, call.to)
          /\ UNCHANGED <<call, ret, stack, tx, calls>>
      BY <1>4, <2>1 DEF EnterInstantiate
    <3>2. vm'.contracts = vm.contracts \cup {call.to} /\ vm'.instanceCount = call.to
      BY <1>1, <3>1, RegisterFacts
    <3>3. QED  BY <1>1, <3>1, <3>2 DEF ProceedStep, CallControl
  <2>2. CASE ~call.stored
    BY <1>2, <1>4, <2>2 DEF EnterInstantiate, Errors
  <2>3. QED  BY <2>1, <2>2
<1>5. CASE EnterBank
  BY <1>1, <1>5 DEF EnterBank, ProceedStep, CallControl
<1>6. CASE EnterReply
  <2>1. CASE call.to \in vm.contracts
    BY <1>1, <1>6, <2>1 DEF EnterReply, ProceedStep, CallControl
  <2>2. CASE call.to \notin vm.contracts
    BY <1>2, <1>6, <2>2 DEF EnterReply, Errors
  <2>3. QED  BY <2>1, <2>2
<1>7. CASE EnterUnsupported
  BY <1>2, <1>7 DEF EnterUnsupported, Errors
<1>8. QED  BY <1>3, <1>4, <1>5, <1>6, <1>7

LEMMA PayFacts ==
    ASSUME TInv, PayCoin \/ Paid
    PROVE  ProceedStep \/ ReturnStep
<1>1. /\ vm \in VMState /\ call \in Call /\ call.gas \in Nat
      /\ call.from \in Addr /\ call.to \in Addr /\ call.due \in Seq(Int)
      /\ CallControl(call, pc, vm)
  BY CallFacts DEF TInv, Control
<1>2. CASE PayCoin
  <2> DEFINE amt == Head(call.due)
  <2>1. pc = "pay" /\ call.due # <<>> /\ UNCHANGED <<stack, tx, calls>>
    BY <1>2 DEF PayCoin
  <2>2. amt \in Int /\ Tail(call.due) \in Seq(Int)
    BY <1>1, <2>1
  <2>3. ASSUME NEW err \in Errors \ {"none"}, RefuseCoin(err)
        PROVE  ReturnStep
    <3>1. ret' \in Result /\ ret'.gas = 0 /\ ret'.err # "none"
      BY <2>3, FailedType DEF RefuseCoin, Return
    <3>2. QED  BY <1>1, <2>1, <2>3, <3>1 DEF RefuseCoin, Return, ReturnStep
  <2>4. ASSUME amt = 0 \/ (amt > 0 /\ Affordable(vm, call.from, amt)),
               vm' = IF amt = 0 THEN vm ELSE Transfer(vm, call.from, call.to, amt),
               call' = [call EXCEPT !.due = Tail(@)],
               UNCHANGED <<pc, ret>>
        PROVE  ProceedStep
    <3>1. /\ call' \in Call
          /\ call'.kind = call.kind /\ call'.from = call.from /\ call'.to = call.to
          /\ call'.gas = call.gas /\ call'.depth = call.depth
          /\ call'.coins = call.coins /\ call'.due = Tail(call.due)
      BY <1>1, <2>2, <2>4 DEF Call
    <3>2. CoinStep
      <4>1. amt \in Nat /\ Affordable(vm, call.from, amt)
        BY <1>1, <2>2, <2>4 DEF Affordable, VMState
      <4>2. QED  BY <2>1, <2>4, <3>1, <4>1 DEF CoinStep
    <3> HIDE DEF amt
    <3>3. CASE amt = 0
      BY <1>1, <2>1, <2>4, <3>1, <3>2, <3>3 DEF ProceedStep, CallControl
    <3>4. CASE amt # 0
      <4>1. /\ amt \in Nat /\ Affordable(vm, call.from, amt)
            /\ vm' = Transfer(vm, call.from, call.to, amt)
        BY <2>2, <2>4, <3>4
      <4>2. vm'.contracts = vm.contracts /\ vm'.instanceCount = vm.instanceCount
        BY <1>1, <4>1, TransferFacts
      <4>3. CallControl(call', pc', vm')
        BY <1>1, <2>1, <2>4, <3>1, <4>2 DEF CallControl
      <4>4. QED  BY <2>1, <2>4, <3>1, <3>2, <4>1, <4>3 DEF ProceedStep
    <3>5. QED  BY <3>3, <3>4
  <2>5. \/ RefuseCoin("coin") \/ RefuseCoin("funds")
        \/ /\ amt = 0 \/ (amt > 0 /\ Affordable(vm, call.from, amt))
           /\ vm' = IF amt = 0 THEN vm ELSE Transfer(vm, call.from, call.to, amt)
           /\ call' = [call EXCEPT !.due = Tail(@)]
           /\ UNCHANGED <<pc, ret>>
    BY <1>2 DEF PayCoin
  <2>6. QED  BY <2>3, <2>4, <2>5 DEF Errors
<1>3. CASE Paid
  <2>1. CASE call.kind = "bank"
    <3>1. ret' = Succeeded(0, <<EventOf(0)>>) /\ pc' = "ret" /\ call' = NoCall
      BY <1>3, <2>1 DEF Paid, Return
    <3>2. ret' \in Result /\ ret'.gas = 0 /\ ret'.events = <<EventOf(0)>>
      BY <1>1, <3>1, EventOfType, SucceededType
    <3>3. QED  BY <1>1, <1>3, <2>1, <3>1, <3>2 DEF Paid, ReturnStep
  <2>2. CASE call.kind # "bank"
    BY <1>1, <1>3, <2>2 DEF Paid, ProceedStep, CallControl
  <2>3. QED  BY <2>1, <2>2
<1>4. QED  BY <1>2, <1>3

LEMMA RunFacts ==
    ASSUME TInv, RunOutOfGas \/ RunFails \/ RunSucceeds
    PROVE  ReturnStep \/ PushStep
<1>1. /\ call \in Call /\ call.gas \in Nat /\ call.depth \in Nat /\ calls \in Nat
      /\ pc = "run" => call.to \in Contract
      /\ GasCosts \subseteq Nat
  BY CallFacts, GasAssumption
<1>2. CASE RunOutOfGas
  <2> DEFINE err == IF call.kind = "reply" THEN "reply" ELSE "outofgas"
  <2>1. err \in Errors /\ err # "none"
    BY DEF Errors
  <2>2. ret' = Failed(err, call.gas) /\ pc' = "ret" /\ call' = NoCall
    BY <1>2 DEF RunOutOfGas, Return
  <2> HIDE DEF err
  <2>3. ret' \in Result /\ ret'.gas = call.gas /\ ret'.err # "none"
    BY <1>1, <2>1, <2>2, FailedType
  <2>4. QED  BY <1>1, <1>2, <2>2, <2>3 DEF RunOutOfGas, ReturnStep
<1>3. CASE RunFails
  <2>1. PICK g \in GasCosts : g <= call.gas /\ Return(Failed(EntryPointError, g))
    BY <1>3 DEF RunFails
  <2>2. EntryPointError \in Errors /\ EntryPointError # "none"
    BY DEF EntryPointError, Errors
  <2>3. g \in Nat /\ ret' = Failed(EntryPointError, g) /\ pc' = "ret" /\ call' = NoCall
    BY <1>1, <2>1 DEF Return
  <2>4. ret' \in Result /\ ret'.gas = g /\ ret'.err # "none"
    BY <2>2, <2>3, FailedType
  <2>5. QED  BY <1>1, <1>3, <2>1, <2>3, <2>4 DEF RunFails, ReturnStep
<1>4. CASE RunSucceeds
  <2>1. PICK g \in GasCosts, n \in 0..MaxMsgs :
          /\ g <= call.gas
          /\ CASE n = 0 ->
                    /\ Return(Succeeded(g, RunEvents(calls + 1)))
                    /\ UNCHANGED stack
               [] n > 0 /\ call.depth >= MaxDispatchDepth ->
                    /\ Return(Failed("depth", g))
                    /\ UNCHANGED stack
               [] OTHER ->
                    /\ stack' = Push(NewFrame(g, n, calls + 1))
                    /\ pc' = "loop"
                    /\ call' = NoCall
                    /\ UNCHANGED ret
    BY <1>4 DEF RunSucceeds
  <2>2. g \in Nat /\ n \in Nat
    BY <1>1, BoundsAssumption
  <2>3. /\ pc = "run" /\ UNCHANGED tx
        /\ vm' = Write(vm, call.to, calls + 1) /\ calls' = calls + 1
    BY <1>4 DEF RunSucceeds
  <2>4. CASE n = 0
    <3>1. /\ ret' = Succeeded(g, RunEvents(calls + 1)) /\ pc' = "ret"
          /\ call' = NoCall /\ UNCHANGED stack
      BY <2>1, <2>2, <2>4 DEF Return
    <3>2. RunEvents(calls + 1) \in Seq(Event)
      <4>1. calls + 1 \in Nat
        BY <1>1
      <4>2. QED  BY <1>1, <4>1, RunEventsType
    <3>3. ret' \in Result /\ ret'.gas = g /\ ret'.events = RunEvents(calls + 1)
      BY <2>2, <3>1, <3>2, SucceededType
    <3>4. QED  BY <2>1, <2>3, <3>1, <3>3 DEF ReturnStep
  <2>5. CASE n > 0 /\ call.depth >= MaxDispatchDepth
    <3>1. /\ ret' = Failed("depth", g) /\ pc' = "ret"
          /\ call' = NoCall /\ UNCHANGED stack
      BY <2>1, <2>2, <2>5 DEF Return
    <3>2. ret' \in Result /\ ret'.gas = g /\ ret'.err # "none"
      BY <2>2, <3>1, FailedType DEF Errors
    <3>3. QED  BY <2>1, <2>3, <3>1, <3>2 DEF ReturnStep
  <2>6. CASE n > 0 /\ call.depth < MaxDispatchDepth
    <3> DEFINE f == NewFrame(g, n, calls + 1)
    <3>1. /\ stack' = Push(f) /\ pc' = "loop"
          /\ call' = NoCall /\ UNCHANGED ret
      BY <1>1, <2>1, <2>2, <2>6, BoundsAssumption
    <3>2. /\ f \in Frame /\ f.awaiting = "none" /\ f.snap = NoSnap
          /\ f.self = call.to /\ f.depth = call.depth /\ f.gas = call.gas
          /\ f.used + f.remaining = f.gas
          /\ f.events = RunEvents(calls + 1) /\ f.sub = <<>>
      BY <1>1, <2>1, <2>2, <2>3, NewFrameFacts
    <3> HIDE DEF f
    <3>3. QED  BY <2>3, <2>6, <3>1, <3>2 DEF PushStep
  <2>7. QED  BY <1>1, <2>2, <2>4, <2>5, <2>6, BoundsAssumption
<1>5. QED  BY <1>2, <1>3, <1>4

\* What TInv says of the innermost activation.
LEMMA InnermostFacts ==
    ASSUME TInv, stack # <<>>
    PROVE  /\ Top \in Frame /\ ret \in Result /\ vm \in VMState
           /\ Top.self \in Addr /\ Top.used \in Nat /\ Top.remaining \in Nat
           /\ Top.depth \in Nat /\ Top.gas \in Nat
           /\ Top.events \in Seq(Event) /\ Top.sub \in Seq(Event)
           /\ ret.gas \in Nat /\ ret.events \in Seq(Event) /\ ret.err \in Errors
           /\ Top.awaiting = "sub" /\ CanCatchError(Top.replyOn) => Top.snap \in VMState
<1>1. stack \in Seq(Frame) /\ ret \in Result /\ vm \in VMState
  BY CallFacts
<1>2. Top \in Frame /\ Len(stack) \in 1..Len(stack)
  BY <1>1, TopFacts
<1>3. Top.awaiting = "sub" /\ CanCatchError(Top.replyOn) => Top.snap \in VMState
  BY <1>2 DEF TInv, Control, StackControl, Top
<1>4. QED  BY <1>1, <1>2, <1>3 DEF Frame, Result, Addr

LEMMA DispatchFacts ==
    ASSUME TInv, DispatchMessage \/ DispatchDone
    PROVE  DispatchStep \/ PopStep
<1>1. stack # <<>>
  BY DEF TInv, Control, StackControl, DispatchMessage, DispatchDone
<1>2. /\ Top \in Frame /\ vm \in VMState /\ vm.instanceCount \in Nat
      /\ Top.self \in Addr /\ Top.used \in Nat /\ Top.remaining \in Nat
      /\ Top.depth \in Nat /\ Top.events \in Seq(Event)
  BY <1>1, InnermostFacts, CallFacts
<1>3. CASE DispatchMessage
  <2>1. /\ pc = "loop" /\ pc' = "call" /\ Top.pending > 0
        /\ UNCHANGED <<vm, ret, tx, calls>>
    BY <1>3 DEF DispatchMessage
  <2>2. PICK replyOn \in ReplyOn :
          stack' = SetTop([Top EXCEPT
                     !.pending = @ - 1,
                     !.replyOn = replyOn,
                     !.snap = IF CanCatchError(replyOn) THEN Snapshot(vm) ELSE NoSnap,
                     !.awaiting = "sub"])
    BY <1>3 DEF DispatchMessage
  <2> DEFINE d == [Top EXCEPT
                     !.pending = @ - 1,
                     !.replyOn = replyOn,
                     !.snap = IF CanCatchError(replyOn) THEN Snapshot(vm) ELSE NoSnap,
                     !.awaiting = "sub"]
  <2>3. /\ d \in Frame
        /\ d.awaiting = "sub" /\ d.replyOn = replyOn
        /\ d.snap = IF CanCatchError(replyOn) THEN vm ELSE NoSnap
        /\ d.self = Top.self /\ d.depth = Top.depth /\ d.gas = Top.gas
        /\ d.used = Top.used /\ d.remaining = Top.remaining
        /\ d.events = Top.events /\ d.sub = Top.sub
    <3>1. Snapshot(vm) = vm
      BY <1>2, SnapshotIsCopy
    <3>2. Top.pending - 1 \in 0..MaxMsgs
      BY <1>2, <2>1, BoundsAssumption DEF Frame
    <3>3. (IF CanCatchError(replyOn) THEN vm ELSE NoSnap) \in VMState \cup {NoSnap}
      BY <1>2
    <3>4. QED  BY <1>2, <3>1, <3>2, <3>3 DEF Frame
  <2>4. stack' = SetTop(d)
    BY <2>2
  <2> HIDE DEF d
  <2>5. PICK m \in Messages : call' = m
    BY <1>3 DEF DispatchMessage
  <2>6. /\ call' \in Call
        /\ call'.gas = Top.remaining /\ call'.depth = Top.depth + 1
        /\ call'.kind # "reply" /\ call'.due = call'.coins
        /\ call'.kind = "instantiate" =>
             call'.to \in Contract /\ call'.to = vm.instanceCount + 1
    <3>1. CASE m = NewCall("unsupported", Top.self, Top.self, TRUE, <<>>,
                           Top.remaining, Top.depth + 1)
      BY <1>2, <2>5, <3>1 DEF NewCall, Call, Kinds
    <3>2. CASE m \in {NewCall(kind, Top.self, to, TRUE, coins, Top.remaining,
                              Top.depth + 1) :
                        kind \in {"bank", "execute"}, to \in Addr, coins \in Funds}
      <4>1. PICK kind \in {"bank", "execute"}, to \in Addr, coins \in Funds :
              m = NewCall(kind, Top.self, to, TRUE, coins, Top.remaining, Top.depth + 1)
        BY <3>2 DEF NewCall
      <4>2. QED  BY <1>2, <2>5, <4>1, FundsAssumption DEF NewCall, Call, Kinds
    <3>3. CASE m \in {NewCall("instantiate", Top.self, to, stored, coins, Top.remaining,
                              Top.depth + 1) :
                        to \in Contract \cap {CreateContractAddress(vm.instanceCount + 1)},
                        stored \in BOOLEAN, coins \in Funds}
      <4>1. PICK to \in Contract \cap {CreateContractAddress(vm.instanceCount + 1)},
                 stored \in BOOLEAN, coins \in Funds :
              m = NewCall("instantiate", Top.self, to, stored, coins, Top.remaining,
                          Top.depth + 1)
        BY <3>3
      <4>2. to \in Contract /\ to = vm.instanceCount + 1 /\ to \in Addr
        BY DEF CreateContractAddress, Addr
      <4>3. QED  BY <1>2, <2>5, <4>1, <4>2, FundsAssumption DEF NewCall, Call, Kinds
    <3>4. QED  BY <2>5, <3>1, <3>2, <3>3 DEF Messages, NewCall
  <2>7. QED  BY <1>1, <2>1, <2>3, <2>4, <2>6 DEF DispatchStep
<1>4. CASE DispatchDone
  <2>1. /\ pc = "loop" /\ pc' = "ret" /\ call' = NoCall /\ stack' = Pop
        /\ ret' = Succeeded(Top.used, Top.events)
        /\ UNCHANGED <<vm, tx, calls>>
    BY <1>4 DEF DispatchDone, Return
  <2>2. ret' \in Result /\ ret'.gas = Top.used /\ ret'.events = Top.events
    BY <1>2, <2>1, SucceededType
  <2>3. QED  BY <1>1, <1>2, <2>1, <2>2, NothingInFlight DEF PopStep
<1>5. QED  BY <1>3, <1>4

LEMMA AbortFacts ==
    ASSUME TInv, SubFailedAborts \/ ReplyFailed
    PROVE  PopStep
<1>1. /\ pc = "ret" /\ stack # <<>> /\ stack' = Pop
      /\ ret' = Failed(ret.err, ChargeTop(Top).used)
      /\ UNCHANGED <<vm, pc, call, tx, calls>> /\ ret.err # "none"
  BY DEF SubFailedAborts, ReplyFailed, Returned
<1>2. call \in Call /\ Top \in Frame /\ ret \in Result /\ ret.err \in Errors
      /\ ret.gas \in Nat /\ Top.used \in Nat
  BY <1>1, InnermostFacts, CallFacts
<1>3. ChargeTop(Top).used = Top.used + ret.gas
  BY <1>2, ChargeTopFacts
<1>4. ret' \in Result /\ ret'.gas = Top.used + ret.gas /\ ret'.err # "none"
  BY <1>1, <1>2, <1>3, FailedType
<1>5. QED  BY <1>1, <1>2, <1>4 DEF PopStep

LEMMA ReplyFacts ==
    ASSUME TInv, SubFailedCaught \/ SubSucceededReply
    PROVE  ReplyStep
<1>1. pc = "ret" /\ stack # <<>> /\ Top.awaiting = "sub"
  BY DEF SubFailedCaught, SubSucceededReply, Returned
<1>2. /\ Top \in Frame /\ ret \in Result /\ Top.self \in Addr /\ Top.depth \in Nat
      /\ ret.events \in Seq(Event)
      /\ CanCatchError(Top.replyOn) => Top.snap \in VMState
  BY <1>1, InnermostFacts
<1> DEFINE f == ChargeTop(Top)
<1>3. /\ f \in Frame /\ f.used = Top.used + ret.gas
      /\ ret.gas <= Top.remaining => f.remaining = Top.remaining - ret.gas
      /\ f.self = Top.self /\ f.depth = Top.depth /\ f.gas = Top.gas
      /\ f.events = Top.events
  BY <1>2, ChargeTopFacts
<1> HIDE DEF f
<1>4. ASSUME NEW events \in Seq(Event), NEW v \in {vm, Top.snap},
             InvokeReply(f, v, events),
             \/ v = vm /\ ret.err = "none"
             \/ v = Top.snap /\ CanCatchError(Top.replyOn) /\ ret.err # "none",
             events = IF ret.err = "none" THEN ret.events ELSE <<>>
      PROVE  ReplyStep
  <2> DEFINE d == [f EXCEPT !.awaiting = "reply", !.sub = events, !.snap = NoSnap]
  <2>1. /\ d \in Frame /\ d.awaiting = "reply" /\ d.snap = NoSnap
        /\ d.self = f.self /\ d.depth = f.depth /\ d.gas = f.gas
        /\ d.used = f.used /\ d.remaining = f.remaining
        /\ d.events = f.events /\ d.sub = events
    BY <1>3, ReplyingFacts
  <2>2. /\ stack' = SetTop(d) /\ vm' = v /\ ret' = NoResult /\ pc' = "call"
        /\ call' = NewCall("reply", f.self, f.self, TRUE, <<>>, f.remaining, f.depth + 1)
        /\ UNCHANGED <<tx, calls>>
    BY <1>4 DEF InvokeReply
  <2> HIDE DEF d
  <2>3. f.remaining \in Nat /\ f.depth + 1 \in Nat
    BY <1>2, <1>3 DEF Frame
  <2>4. /\ call' \in Call /\ call'.kind = "reply"
        /\ call'.gas = f.remaining /\ call'.depth = f.depth + 1
        /\ call'.coins = <<>> /\ call'.due = <<>>
    BY <1>2, <1>3, <2>2, <2>3 DEF NewCall, Call, Kinds
  <2>5. Charged(d)
    BY <1>3, <2>1 DEF Charged
  <2>6. QED
    BY <1>1, <1>3, <1>4, <2>1, <2>2, <2>4, <2>5, NothingInFlight DEF ReplyStep
<1>5. CASE SubFailedCaught
  <2>1. /\ CanCatchError(Top.replyOn) /\ ret.err # "none"
        /\ InvokeReply(f, Top.snap, <<>>)
    BY <1>2, <1>5, SnapshotIsCopy DEF SubFailedCaught, f
  <2>2. <<>> \in Seq(Event)
    OBVIOUS
  <2>3. QED  BY <1>4, <2>1, <2>2
<1>6. CASE SubSucceededReply
  <2>1. InvokeReply(f, vm, ret.events) /\ ret.err = "none"
    BY <1>6 DEF SubSucceededReply, f
  <2>2. QED  BY <1>2, <1>4, <2>1
<1>7. QED  BY <1>5, <1>6

LEMMA ResumeFacts ==
    ASSUME TInv, SubSucceededNoReply \/ ReplySucceeded
    PROVE  ResumeStep
<1>1. /\ pc = "ret" /\ stack # <<>> /\ pc' = "loop" /\ ret' = NoResult
      /\ UNCHANGED <<vm, call, tx, calls>> /\ ret.err = "none"
  BY DEF SubSucceededNoReply, ReplySucceeded, Returned
<1>2. /\ Top \in Frame /\ ret \in Result
      /\ ret.events \in Seq(Event) /\ Top.events \in Seq(Event) /\ Top.sub \in Seq(Event)
  BY <1>1, InnermostFacts
<1> DEFINE f == ChargeTop(Top)
<1>3. /\ f \in Frame /\ f.used = Top.used + ret.gas
      /\ ret.gas <= Top.remaining => f.remaining = Top.remaining - ret.gas
      /\ f.self = Top.self /\ f.depth = Top.depth /\ f.gas = Top.gas
      /\ f.events = Top.events /\ f.sub = Top.sub /\ f.snap = Top.snap
  BY <1>2, ChargeTopFacts
<1> DEFINE Merged(events, sub, snap) ==
             \/ /\ Top.awaiting = "sub" /\ snap = NoSnap
                /\ events = Top.events \o ret.events /\ sub = Top.sub
             \/ /\ Top.awaiting = "reply" /\ snap = Top.snap
                /\ events = Top.events \o Top.sub \o ret.events /\ sub = <<>>
<1>4. \E events, sub \in Seq(Event), snap \in {f.snap, NoSnap} :
        /\ stack' = SetTop([f EXCEPT !.events = events, !.sub = sub, !.snap = snap,
                                     !.awaiting = "none"])
        /\ Merged(events, sub, snap)
  <2>1. CASE SubSucceededNoReply
    <3> DEFINE e == f.events \o ret.events
    <3>1. e \in Seq(Event) /\ Merged(e, f.sub, NoSnap)
      BY <1>2, <1>3, <2>1 DEF SubSucceededNoReply, Returned
    <3>2. stack' = SetTop([f EXCEPT !.events = e, !.snap = NoSnap, !.awaiting = "none"])
      BY <2>1 DEF SubSucceededNoReply
    <3> HIDE DEF e, f, Merged
    <3>3. [f EXCEPT !.events = e, !.snap = NoSnap, !.awaiting = "none"]
            = [f EXCEPT !.events = e, !.sub = f.sub, !.snap = NoSnap, !.awaiting = "none"]
      BY <1>3 DEF Frame
    <3>4. QED  BY <1>2, <1>3, <3>1, <3>2, <3>3
  <2>2. CASE ReplySucceeded
    <3> DEFINE e == f.events \o Top.sub \o ret.events
    <3>1. e \in Seq(Event) /\ Merged(e, <<>>, f.snap)
      BY <1>2, <1>3, <2>2 DEF ReplySucceeded, Returned
    <3>2. stack' = SetTop([f EXCEPT !.events = e, !.sub = <<>>, !.awaiting = "none"])
      BY <2>2 DEF ReplySucceeded
    <3> HIDE DEF e, f, Merged
    <3>3. [f EXCEPT !.events = e, !.sub = <<>>, !.awaiting = "none"]
            = [f EXCEPT !.events = e, !.sub = <<>>, !.snap = f.snap, !.awaiting = "none"]
      BY <1>3 DEF Frame
    <3>4. <<>> \in Seq(Event)
      OBVIOUS
    <3>5. QED  BY <3>1, <3>2, <3>3, <3>4
  <2>3. QED  BY <2>1, <2>2
<1> HIDE DEF f, Merged
<1>5. PICK events \in Seq(Event), sub \in Seq(Event), snap \in {f.snap, NoSnap} :
        /\ stack' = SetTop([f EXCEPT !.events = events, !.sub = sub, !.snap = snap,
                                     !.awaiting = "none"])
        /\ Merged(events, sub, snap)
  BY <1>4
<1> DEFINE d == [f EXCEPT !.events = events, !.sub = sub, !.snap = snap,
                          !.awaiting = "none"]
<1>6. /\ d \in Frame /\ d.awaiting = "none" /\ d.snap = snap
      /\ d.self = f.self /\ d.depth = f.depth /\ d.gas = f.gas
      /\ d.used = f.used /\ d.remaining = f.remaining
      /\ d.events = events /\ d.sub = sub
  BY <1>3 DEF Frame
<1>7. stack' = SetTop(d)
  BY <1>5
<1> HIDE DEF d
<1>8. Charged(d)
  BY <1>3, <1>6 DEF Charged
<1>9. \/ /\ Top.awaiting = "sub" /\ d.snap = NoSnap
         /\ d.events = Top.events \o ret.events /\ d.sub = Top.sub
      \/ /\ Top.awaiting = "reply"
         /\ d.events = Top.events \o Top.sub \o ret.events /\ d.sub = <<>>
  BY <1>5, <1>6 DEF Merged
<1>10. QED  BY <1>1, <1>3, <1>6, <1>7, <1>8, <1>9, NothingInFlight DEF ResumeStep

LEMMA EndTxFacts ==
    ASSUME TInv, EndTx
    PROVE  EndStep
<1>1. vm \in VMState /\ tx \in Tx /\ tx.snap \in VMState /\ tx.sender \in Users
  BY CallFacts DEF Tx
<1>2. \/ vm' = [IncrementNonce(vm, tx.sender) EXCEPT !.touched = {}]
      \/ vm' = tx.snap
  BY <1>1, SnapshotIsCopy DEF EndTx
<1>3. /\ \/ vm' = tx.snap
         \/ /\ vm'.contracts = vm.contracts /\ vm'.instanceCount = vm.instanceCount
            /\ vm'.store = vm.store /\ vm'.balance = vm.balance
      /\ vm' \in VMState
  BY <1>1, <1>2, CommittedFacts
<1>4. tx' = [tx EXCEPT !.gasLimit = 0, !.nonce = NoNonce, !.snap = vm',
                       !.created = {}]
  BY DEF EndTx
<1>5. tx' \in Tx /\ tx'.snap = vm' /\ tx'.gasLimit = 0
  <2>1. NoNonce \in Int /\ 0 \in Nat
    BY DEF NoNonce
  <2>2. QED  BY <1>1, <1>3, <1>4, <2>1 DEF Tx
<1>6. QED  BY <1>3, <1>5 DEF EndTx, EndStep

\* Every step is of one of these kinds.
LEMMA StepKinds ==
    ASSUME TInv, Next
    PROVE  \/ BeginStep \/ ProceedStep \/ ReturnStep \/ PushStep \/ DispatchStep
           \/ PopStep \/ ReplyStep \/ ResumeStep \/ EndStep
BY BeginTxFacts, EnterFacts, PayFacts, RunFacts, DispatchFacts, AbortFacts,
   ReplyFacts, ResumeFacts, EndTxFacts DEF Next, Engine

\* What each kind does to the VM's state.
LEMMA ProceedVM ==
    ASSUME TInv, ProceedStep
    PROVE  /\ vm' \in VMState
           /\ vm.touched \subseteq vm'.touched
           /\ \A a \in Addr : vm'.balance[a] # vm.balance[a] => a \in vm'.touched
           /\ vm'.store = vm.store
           /\ \/ vm'.contracts = vm.contracts /\ vm'.instanceCount = vm.instanceCount
              \/ /\ pc = "call" /\ pc' = "pay" /\ call.kind = "instantiate"
                 /\ call.to \in Contract /\ call.to = vm.instanceCount + 1
                 /\ vm'.contracts = vm.contracts \cup {call.to}
                 /\ vm'.instanceCount = call.to
<1>1. /\ vm \in VMState /\ call.from \in Addr /\ call.to \in Addr
      /\ pc = "call" /\ call.kind = "instantiate" =>
            call.to \in Contract /\ call.to = vm.instanceCount + 1
  BY CallFacts DEF TInv, Control, CallControl
<1>2. CASE vm' = vm
  BY <1>1, <1>2
<1>3. CASE /\ pc = "call" /\ pc' = "pay" /\ call.kind = "instantiate"
           /\ vm' = Register(vm, call.to)
  BY <1>1, <1>3, RegisterFacts
<1>4. CASE \E amt \in Nat : /\ Affordable(vm, call.from, amt)
                            /\ vm' = Transfer(vm, call.from, call.to, amt)
  BY <1>1, <1>4, TransferFacts
<1>5. QED  BY <1>2, <1>3, <1>4 DEF ProceedStep

LEMMA ReturnVM ==
    ASSUME TInv, ReturnStep \/ PushStep
    PROVE  /\ vm' \in VMState /\ calls' \in Nat
           /\ vm'.touched = vm.touched /\ vm'.balance = vm.balance
           /\ \/ vm' = vm
              \/ /\ pc = "pay" /\ call.kind = "instantiate"
                 /\ call.to \in Contract /\ call.to = vm.instanceCount
                 /\ vm'.contracts = vm.contracts \ {call.to}
                 /\ vm'.instanceCount = call.to - 1
                 /\ vm'.store = vm.store
              \/ /\ pc = "run" /\ call.to \in vm.contracts /\ call.to \in Contract
                 /\ vm'.contracts = vm.contracts
                 /\ vm'.instanceCount = vm.instanceCount
                 /\ \A c \in Contract : c # call.to => vm'.store[c] = vm.store[c]
<1>1. /\ vm \in VMState /\ calls \in Nat
      /\ pc = "pay" /\ call.kind = "instantiate" =>
            call.to \in Contract /\ call.to = vm.instanceCount
      /\ pc = "run" => call.to \in vm.contracts /\ call.to \in Contract
  BY CallFacts DEF TInv, Control, CallControl
<1>2. CASE vm' = vm /\ calls' = calls
  BY <1>1, <1>2
<1>3. CASE /\ pc = "pay" /\ call.kind = "instantiate"
           /\ vm' = Unregister(vm, call.to) /\ calls' = calls
  BY <1>1, <1>3, UnregisterFacts
<1>4. CASE pc = "run" /\ vm' = Write(vm, call.to, calls + 1) /\ calls' = calls + 1
  <2>1. calls + 1 \in Nat
    BY <1>1
  <2>2. QED  BY <1>1, <1>4, <2>1, WriteFacts
<1>5. QED  BY <1>2, <1>3, <1>4 DEF ReturnStep, PushStep

LEMMA ReplyVM ==
    ASSUME TInv, ReplyStep
    PROVE  vm' \in VMState
BY InnermostFacts DEF ReplyStep

LEMMA InitTInv == Init => TInv
<1> SUFFICES ASSUME Init PROVE TInv
  OBVIOUS
<1>1. 1..GenesisContracts \in SUBSET Contract /\ GenesisContracts \in 0..MaxInstances
  BY BoundsAssumption DEF Contract
<1>2. Genesis \in VMState
  BY <1>1, BoundsAssumption DEF Genesis, VMState
<1>3. tx \in Tx
  BY <1>2 DEF Init, Tx, NoNonce
<1>4. TypeOK
  BY <1>2, <1>3, NothingInFlight DEF Init, TypeOK
<1>5. Control
  BY DEF Init, Control, StackControl, CallControl
<1>6. QED  BY <1>4, <1>5 DEF TInv

LEMMA NextTInv ==
    ASSUME TInv, [Next]_vars
    PROVE  TInv'
<1>1. CASE UNCHANGED vars
  BY <1>1 DEF TInv, TypeOK, Control, StackControl, CallControl, vars
<1> USE NothingInFlight
<1>2. /\ stack \in Seq(Frame) /\ StackControl(stack, pc)
      /\ call \in Call /\ ret \in Result /\ tx \in Tx /\ vm \in VMState /\ calls \in Nat
  BY CallFacts DEF TInv, Control
<1>3. ASSUME pc' \in {"idle", "loop", "ret"} PROVE CallControl(call', pc', vm')
  BY <1>3 DEF CallControl
<1>4. CASE BeginStep
  BY <1>2, <1>4 DEF BeginStep, TInv, TypeOK, Control, StackControl, CallControl
<1>5. CASE ProceedStep
  BY <1>2, <1>5, ProceedVM DEF ProceedStep, TInv, TypeOK, Control, StackControl
<1>6. CASE ReturnStep
  BY <1>2, <1>3, <1>6, ReturnVM DEF ReturnStep, TInv, TypeOK, Control, StackControl
<1>7. CASE PushStep
  <2>1. PICK f \in Frame : pc = "run" /\ stack' = Push(f) /\ f.awaiting = "none"
    BY <1>7 DEF PushStep
  <2>2. stack' \in Seq(Frame) /\ StackControl(stack', "loop")
    <3>1. /\ stack' \in Seq(Frame) /\ Len(stack') = Len(stack) + 1
          /\ stack'[Len(stack) + 1] = f
          /\ \A i \in 1..Len(stack) : stack'[i] = stack[i]
      BY <1>2, <2>1, PushFacts
    <3>2. \A i \in 1..Len(stack') : i \in 1..Len(stack) \/ i = Len(stack')
      BY <1>2, <3>1
    <3>3. \A i \in 1..Len(stack) : i # Len(stack')
      BY <1>2, <3>1
    <3>4. QED  BY <1>2, <2>1, <3>1, <3>2, <3>3 DEF StackControl
  <2>3. QED  BY <1>2, <1>3, <1>7, <2>2, ReturnVM DEF PushStep, TInv, TypeOK, Control
<1>8. CASE DispatchStep
  <2>1. PICK d \in Frame : /\ stack' = SetTop(d) /\ d.awaiting = "sub"
                           /\ CanCatchError(d.replyOn) => d.snap = vm
    BY <1>8 DEF DispatchStep
  <2>2. stack' \in Seq(Frame) /\ StackControl(stack', "call")
    BY <1>2, <1>8, <2>1, SetTopFacts DEF DispatchStep, StackControl
  <2>3. CallControl(call', "call", vm')
    BY <1>8 DEF DispatchStep, CallControl
  <2>4. QED  BY <1>2, <1>8, <2>2, <2>3 DEF DispatchStep, TInv, TypeOK, Control
<1>9. CASE PopStep
  <2>1. stack' \in Seq(Frame) /\ StackControl(stack', "ret")
    BY <1>2, <1>9, PopFacts DEF PopStep, StackControl
  <2>2. QED  BY <1>2, <1>3, <1>9, <2>1 DEF PopStep, TInv, TypeOK, Control
<1>10. CASE ReplyStep
  <2>1. PICK d \in Frame : stack' = SetTop(d) /\ d.awaiting = "reply"
    BY <1>10 DEF ReplyStep
  <2>2. stack' \in Seq(Frame) /\ StackControl(stack', "call")
    BY <1>2, <1>10, <2>1, SetTopFacts DEF ReplyStep, StackControl
  <2>3. CallControl(call', "call", vm')
    BY <1>10 DEF ReplyStep, CallControl
  <2>4. QED  BY <1>2, <1>10, <2>2, <2>3, ReplyVM DEF ReplyStep, TInv, TypeOK, Control
<1>11. CASE ResumeStep
  <2>1. PICK d \in Frame : stack' = SetTop(d) /\ d.awaiting = "none"
    BY <1>11 DEF ResumeStep
  <2>2. stack' \in Seq(Frame) /\ StackControl(stack', "loop")
    BY <1>2, <1>11, <2>1, SetTopFacts DEF ResumeStep, StackControl
  <2>3. QED  BY <1>2, <1>3, <1>11, <2>2 DEF ResumeStep, TInv, TypeOK, Control
<1>12. CASE EndStep
  BY <1>2, <1>3, <1>12 DEF EndStep, TInv, TypeOK, Control, StackControl
<1>13. QED
  BY <1>1, <1>4, <1>5, <1>6, <1>7, <1>8, <1>9, <1>10, <1>11, <1>12, StepKinds

LEMMA TInvInductive == Spec => []TInv
<1>1. Init => TInv
  BY InitTInv
<1>2. TInv /\ [Next]_vars => TInv'
  BY NextTInv
<1>3. QED  BY <1>1, <1>2, PTL DEF Spec

\* The engine's state keeps its type: no balance, nonce or gas count goes
\* below zero, every activation belongs to a contract, and Restore is only
\* ever given a snapshot (transferFunds, dispatchMessages, Restore).
THEOREM TypeCorrect == Spec => []TypeOK
<1>1. TInv => TypeOK
  BY DEF TInv
<1>2. QED  BY <1>1, TInvInductive, PTL

-----------------------------------------------------------------------------
(***************************************************************************)
(* The gas budget.  GasWithinBudget is inductive with TInv: what comes     *)
(* back is within the caller's remaining gas, so SafeSubGas never cuts off *)
(* and used and remaining go on adding up.                                 *)
(***************************************************************************)
LEMMA InitGas == Init => GasWithinBudget
BY DEF Init, GasWithinBudget, NoResult, Succeeded

LEMMA NextGas ==
    ASSUME TInv, TInv', GasWithinBudget, [Next]_vars
    PROVE  GasWithinBudget'
<1>1. /\ stack \in Seq(Frame) /\ call.gas \in Nat /\ tx.gasLimit \in Nat
      /\ ret.gas \in Nat
      /\ \A i \in 1..Len(stack) :
            stack[i].gas \in Nat /\ stack[i].used \in Nat /\ stack[i].remaining \in Nat
  <2>1. stack \in Seq(Frame) /\ tx \in Tx /\ ret \in Result /\ call.gas \in Nat
    BY CallFacts
  <2>2. \A i \in 1..Len(stack) : stack[i] \in Frame
    BY <2>1
  <2>3. QED  BY <2>1, <2>2 DEF Tx, Result, Frame
<1> DEFINE Sum(s, i) == s[i].used + s[i].remaining = s[i].gas
           Within(s, i) == i > 1 => s[i].gas <= s[i-1].remaining
<1>2. CASE UNCHANGED vars
  BY <1>2 DEF GasWithinBudget, Budget, Top, vars
<1>3. CASE BeginStep
  BY <1>3 DEF BeginStep, TInv, TypeOK, Tx, GasWithinBudget, Budget
<1>4. CASE ProceedStep
  BY <1>4 DEF ProceedStep, GasWithinBudget, Budget, Top
<1>5. CASE ReturnStep
  <2>1. ret'.gas \in Nat /\ Budget' = Budget /\ call.gas <= Budget /\ Budget \in Nat
    BY <1>1, <1>5, InnermostFacts DEF ReturnStep, GasWithinBudget, Budget, Top, Result
  <2>2. QED  BY <1>1, <1>5, <2>1 DEF ReturnStep, GasWithinBudget, Budget
<1>6. CASE PushStep
  <2>1. PICK f \in Frame : /\ stack' = Push(f) /\ f.gas = call.gas
                           /\ f.used + f.remaining = f.gas
    BY <1>6 DEF PushStep
  <2>2. /\ Len(stack') = Len(stack) + 1 /\ Len(stack) \in Nat
        /\ stack' # <<>> /\ stack'[Len(stack) + 1] = f
        /\ \A i \in 1..Len(stack) : stack'[i] = stack[i]
    <3>1. stack \in Seq(Frame)
      BY <1>1
    <3>2. QED  BY <2>1, <3>1, PushFacts
  <2>3. /\ stack # <<>> => f.gas <= stack[Len(stack)].remaining
        /\ stack = <<>> => f.gas <= tx.gasLimit
    BY <1>6, <2>1 DEF PushStep, GasWithinBudget, Budget, Top
  <2>4. ASSUME NEW i \in 1..Len(stack') PROVE Sum(stack', i) /\ Within(stack', i)
    <3>1. CASE i = Len(stack) + 1
      BY <1>1, <2>1, <2>2, <2>3, <3>1
    <3>2. CASE i # Len(stack) + 1
      <4>1. i \in 1..Len(stack) /\ (i > 1 => i - 1 \in 1..Len(stack))
        BY <2>2, <3>2
      <4>2. QED  BY <2>2, <4>1 DEF GasWithinBudget
    <3>3. QED  BY <3>1, <3>2
  <2>5. stack'[1].gas <= tx'.gasLimit
    BY <1>1, <1>6, <2>2, <2>3 DEF PushStep, GasWithinBudget
  <2>6. QED  BY <1>6, <2>4, <2>5 DEF PushStep, GasWithinBudget
<1>7. CASE DispatchStep
  <2>1. PICK d \in Frame : /\ stack' = SetTop(d) /\ d.gas = Top.gas
                           /\ d.used = Top.used /\ d.remaining = Top.remaining
    BY <1>7 DEF DispatchStep
  <2>2. /\ Len(stack') = Len(stack) /\ stack' # <<>> /\ stack # <<>>
        /\ Len(stack) \in 1..Len(stack)
        /\ \A i \in 1..Len(stack) : /\ stack'[i].gas = stack[i].gas
                                    /\ stack'[i].used = stack[i].used
                                    /\ stack'[i].remaining = stack[i].remaining
    BY <1>1, <1>7, <2>1, SetTopFacts DEF DispatchStep, Top
  <2>3. call'.gas = stack[Len(stack)].remaining /\ pc' = "call" /\ tx' = tx
    BY <1>7 DEF DispatchStep, Top
  <2>4. ASSUME NEW i \in 1..Len(stack') PROVE Sum(stack', i) /\ Within(stack', i)
    <3>1. i \in 1..Len(stack) /\ (i > 1 => i - 1 \in 1..Len(stack))
      BY <2>2
    <3>2. QED  BY <2>2, <3>1 DEF GasWithinBudget
  <2>5. stack'[1].gas <= tx'.gasLimit
    BY <2>2, <2>3 DEF GasWithinBudget
  <2>6. call'.gas <= Budget'
    BY <1>1, <2>2, <2>3 DEF Budget, Top
  <2>7. QED  BY <2>3, <2>4, <2>5, <2>6 DEF GasWithinBudget
<1>8. CASE PopStep
  <2>1. /\ Len(stack') = Len(stack) - 1
        /\ \A i \in 1..Len(stack') : stack'[i] = stack[i]
        /\ stack # <<>> /\ Len(stack) \in 1..Len(stack) /\ pc' = "ret" /\ tx' = tx
        /\ stack' \in Seq(Frame)
    BY <1>1, <1>8, PopFacts DEF PopStep
  <2>2. ret'.gas <= stack[Len(stack)].gas
    <3>1. ret'.gas = stack[Len(stack)].used + (IF pc = "loop" THEN 0 ELSE ret.gas)
      BY <1>8 DEF PopStep, Top
    <3>2. pc # "loop" => ret.gas <= stack[Len(stack)].remaining
      BY <1>8, <2>1 DEF PopStep, GasWithinBudget, Budget, Top
    <3>3. QED  BY <1>1, <2>1, <3>1, <3>2 DEF GasWithinBudget
  <2>3. CASE stack' = <<>>
    <3>1. Len(stack) = 1 /\ Len(stack') = 0 /\ ret'.gas \in Nat
      BY <1>1, <2>1, <2>3 DEF TInv, TypeOK, Result
    <3>2. ret'.gas <= tx'.gasLimit
      BY <1>1, <2>1, <2>2, <3>1 DEF GasWithinBudget
    <3>3. QED  BY <2>1, <2>3, <3>1, <3>2 DEF GasWithinBudget, Budget
  <2>4. CASE stack' # <<>>
    <3>1. Len(stack) > 1 /\ Len(stack) - 1 \in 1..Len(stack')
      BY <1>1, <2>1, <2>4
    <3>2. ret'.gas \in Nat
      BY DEF TInv, TypeOK, Result
    <3>3. stack[Len(stack)].gas <= stack[Len(stack) - 1].remaining
      BY <1>1, <2>1, <3>1 DEF GasWithinBudget
    <3>4. ret'.gas <= Budget'
      BY <1>1, <2>1, <2>2, <2>4, <3>1, <3>2, <3>3 DEF Budget, Top
    <3>5. ASSUME NEW i \in 1..Len(stack') PROVE Sum(stack', i) /\ Within(stack', i)
      <4>1. /\ i \in 1..Len(stack)
            /\ i > 1 => i - 1 \in 1..Len(stack) /\ i - 1 \in 1..Len(stack')
        BY <1>1, <2>1
      <4>2. QED  BY <2>1, <4>1 DEF GasWithinBudget
    <3>6. stack'[1].gas <= tx'.gasLimit
      BY <1>1, <2>1, <3>1 DEF GasWithinBudget
    <3>7. QED  BY <2>1, <3>4, <3>5, <3>6 DEF GasWithinBudget
  <2>5. QED  BY <2>3, <2>4
<1>9. ASSUME pc = "ret", stack # <<>>, UNCHANGED tx,
             NEW d \in Frame, stack' = SetTop(d), Charged(d)
      PROVE  /\ stack' # <<>> /\ Len(stack') = Len(stack)
             /\ Len(stack) \in 1..Len(stack)
             /\ stack'[Len(stack)] = d
             /\ \A i \in 1..Len(stack) : Sum(stack', i) /\ Within(stack', i)
             /\ stack'[1].gas <= tx'.gasLimit
  <2>1. ret.gas <= Top.remaining /\ Len(stack) \in 1..Len(stack)
    BY <1>1, <1>9 DEF GasWithinBudget, Budget
  <2>2. /\ d.gas = stack[Len(stack)].gas
        /\ d.used + d.remaining = d.gas
    BY <1>1, <1>9, <2>1 DEF Charged, Top, GasWithinBudget
  <2>3. /\ stack' # <<>> /\ Len(stack') = Len(stack)
        /\ stack'[Len(stack)] = d
        /\ \A i \in 1..Len(stack) : i # Len(stack) => stack'[i] = stack[i]
    BY <1>1, <1>9, SetTopFacts
  <2>4. ASSUME NEW i \in 1..Len(stack) PROVE Sum(stack', i) /\ Within(stack', i)
    <3>1. i > 1 => i - 1 \in 1..Len(stack) /\ i - 1 # Len(stack)
      BY <2>1
    <3>2. CASE i = Len(stack)
      BY <2>2, <2>3, <3>1, <3>2 DEF GasWithinBudget
    <3>3. CASE i # Len(stack)
      BY <2>3, <3>1, <3>3 DEF GasWithinBudget
    <3>4. QED  BY <3>2, <3>3
  <2>5. stack'[1].gas <= tx'.gasLimit
    BY <1>1, <1>9, <2>1, <2>2, <2>3 DEF GasWithinBudget
  <2>6. QED  BY <2>1, <2>3, <2>4, <2>5
<1>10. CASE ReplyStep
  <2>1. PICK d \in Frame : stack' = SetTop(d) /\ Charged(d) /\ call'.gas = d.remaining
    BY <1>10 DEF ReplyStep
  <2>2. d.remaining \in Nat
    BY DEF Frame
  <2>3. QED  BY <1>9, <1>10, <2>1, <2>2 DEF ReplyStep, GasWithinBudget, Budget, Top
<1>11. CASE ResumeStep
  <2>1. PICK d \in Frame : stack' = SetTop(d) /\ Charged(d)
    BY <1>11 DEF ResumeStep
  <2>2. QED  BY <1>9, <1>11, <2>1 DEF ResumeStep, GasWithinBudget
<1>12. CASE EndStep
  BY <1>12 DEF EndStep, GasWithinBudget, Budget
<1>13. QED
  BY <1>2, <1>3, <1>4, <1>5, <1>6, <1>7, <1>8, <1>10, <1>11, <1>12, StepKinds

\* No call tree consumes more gas than it was given, for any nesting of
\* sub-messages, replies and caught failures and for any gas costs: the sums
\* dispatchMessages threads up and down never drift apart.
THEOREM GasNeverExceedsBudget == Spec => []GasWithinBudget
<1>1. Init => GasWithinBudget
  BY InitGas
<1>2. TInv /\ TInv' /\ GasWithinBudget /\ [Next]_vars => GasWithinBudget'
  BY NextGas
<1>3. QED  BY <1>1, <1>2, TInvInductive, PTL DEF Spec

-----------------------------------------------------------------------------
(***************************************************************************)
(* The depth limit.  A call in flight is as deep as the stack is long.     *)
(***************************************************************************)
DepthInv ==
    /\ DepthBounded
    /\ pc \in {"call", "pay", "run"} => call.depth = Len(stack)

LEMMA NextDepth ==
    ASSUME TInv, DepthInv, [Next]_vars
    PROVE  DepthInv'
<1>1. stack \in Seq(Frame) /\ MaxDispatchDepth \in Nat /\ call.depth \in Nat
  BY CallFacts, BoundsAssumption
<1>2. CASE UNCHANGED vars
  BY <1>2 DEF DepthInv, DepthBounded, vars
<1>3. CASE BeginStep
  BY <1>1, <1>3 DEF BeginStep, DepthInv, DepthBounded
<1>4. CASE ProceedStep
  BY <1>4 DEF ProceedStep, DepthInv, DepthBounded
<1>5. CASE ReturnStep
  BY <1>5 DEF ReturnStep, DepthInv, DepthBounded
<1>6. CASE PushStep
  <2>1. PICK f \in Frame : stack' = Push(f) /\ f.depth = call.depth
    BY <1>6 DEF PushStep
  <2>2. /\ Len(stack') = Len(stack) + 1 /\ Len(stack) \in Nat
        /\ stack'[Len(stack) + 1] = f
        /\ \A i \in 1..Len(stack) : stack'[i] = stack[i]
    BY <1>1, <2>1, PushFacts
  <2>3. f.depth = Len(stack) /\ Len(stack) < MaxDispatchDepth
    BY <1>6, <2>1 DEF PushStep, DepthInv
  <2>4. \A i \in 1..Len(stack') : i \in 1..Len(stack) \/ i = Len(stack) + 1
    BY <2>2
  <2>5. DepthBounded'
    BY <1>1, <2>2, <2>3, <2>4 DEF DepthInv, DepthBounded
  <2>6. QED  BY <1>6, <2>5 DEF PushStep, DepthInv
<1>7. ASSUME stack # <<>>, NEW d \in Frame, stack' = SetTop(d), d.depth = Top.depth
      PROVE  /\ DepthBounded' /\ Len(stack') = Len(stack)
             /\ Top.depth + 1 = Len(stack)
  BY <1>1, <1>7, SetTopFacts, TopFacts DEF DepthInv, DepthBounded, Top
<1>8. CASE DispatchStep
  BY <1>7, <1>8 DEF DispatchStep, DepthInv
<1>9. CASE PopStep
  BY <1>1, <1>9, PopFacts DEF PopStep, DepthInv, DepthBounded
<1>10. CASE ReplyStep
  BY <1>7, <1>10 DEF ReplyStep, Charged, DepthInv
<1>11. CASE ResumeStep
  BY <1>7, <1>11 DEF ResumeStep, Charged, DepthInv
<1>12. CASE EndStep
  BY <1>12 DEF EndStep, DepthInv, DepthBounded
<1>13. QED
  BY <1>2, <1>3, <1>4, <1>5, <1>6, <1>8, <1>9, <1>10, <1>11, <1>12, StepKinds

\* At most MaxDispatchDepth activations of dispatchMessages nest, also when
\* replies return messages: the recursion of the engine is bounded for every
\* value of maxDispatchDepth.
THEOREM RecursionBounded == Spec => []DepthBounded
<1>1. Init => DepthInv
  BY BoundsAssumption DEF Init, DepthInv, DepthBounded
<1>2. TInv /\ DepthInv /\ [Next]_vars => DepthInv'
  BY NextDepth
<1>3. DepthInv => DepthBounded
  BY DEF DepthInv
<1>4. QED  BY <1>1, <1>2, <1>3, TInvInductive, PTL DEF Spec

-----------------------------------------------------------------------------
(***************************************************************************)
(* Instances.  A rollback takes the counter, the registry and the storage  *)
(* back together, so the same must hold of every snapshot that may still   *)
(* be restored; and a snapshot knows every contract that was waiting when  *)
(* it was taken.                                                           *)
(***************************************************************************)
Fresh(v) ==
    /\ v.contracts \subseteq 1..v.instanceCount
    /\ \A c \in Contract : c > v.instanceCount => v.store[c] = {}

InstanceInv ==
    /\ Fresh(vm)
    /\ Fresh(tx.snap)
    /\ CallersRegistered
    /\ \A i \in 1..Len(stack) :
        stack[i].snap # NoSnap =>
            /\ Fresh(stack[i].snap)
            /\ \A j \in 1..i : stack[j].self \in stack[i].snap.contracts
    /\ pc \in {"call", "pay"} /\ call.kind = "instantiate" =>
        \A i \in 1..Len(stack) : stack[i].self # call.to
    /\ pc = "pay" /\ call.kind = "instantiate" => vm.store[call.to] = {}

LEMMA NextInstances ==
    ASSUME TInv, InstanceInv, [Next]_vars
    PROVE  InstanceInv'
<1>1. /\ stack \in Seq(Frame) /\ vm \in VMState /\ vm.instanceCount \in Nat
      /\ vm.contracts \in SUBSET Contract /\ Contract \subseteq Nat
  BY CallFacts DEF Contract
<1>2. CASE UNCHANGED vars
  BY <1>2 DEF InstanceInv, CallersRegistered, Fresh, vars
<1>3. CASE BeginStep
  BY <1>1, <1>3 DEF BeginStep, InstanceInv, CallersRegistered, Fresh
<1>4. CASE ProceedStep
  <2>1. /\ stack' = stack /\ tx' = tx /\ call'.kind = call.kind /\ call'.to = call.to
        /\ vm'.store = vm.store
    BY <1>4, ProceedVM DEF ProceedStep
  <2>2. CASE vm'.contracts = vm.contracts /\ vm'.instanceCount = vm.instanceCount
    <3>1. pc' = "pay" /\ pc = "call" /\ call.kind = "instantiate" => FALSE
      BY <1>1, <1>4, <2>1, <2>2 DEF ProceedStep, TInv, Control, CallControl
    <3>2. QED
      BY <1>4, <2>1, <2>2, <3>1 DEF ProceedStep, InstanceInv, CallersRegistered, Fresh
  <2>3. CASE /\ pc = "call" /\ pc' = "pay" /\ call.kind = "instantiate"
             /\ call.to \in Contract /\ call.to = vm.instanceCount + 1
             /\ vm'.contracts = vm.contracts \cup {call.to}
             /\ vm'.instanceCount = call.to
    <3>1. vm.store[call.to] = {}
      BY <1>1, <2>3 DEF InstanceInv, Fresh
    <3>2. Fresh(vm)'
      BY <1>1, <2>1, <2>3 DEF InstanceInv, Fresh
    <3>3. QED  BY <2>1, <2>3, <3>1, <3>2 DEF InstanceInv, CallersRegistered
  <2>4. QED  BY <1>4, <2>2, <2>3, ProceedVM
<1>5. ASSUME ReturnStep \/ PushStep
      PROVE  Fresh(vm)' /\ \A i \in 1..Len(stack) : stack[i].self \in vm'.contracts
  <2>1. CASE vm' = vm
    BY <2>1 DEF InstanceInv, CallersRegistered, Fresh
  <2>2. CASE /\ pc = "pay" /\ call.kind = "instantiate"
             /\ call.to \in Contract /\ call.to = vm.instanceCount
             /\ vm'.contracts = vm.contracts \ {call.to}
             /\ vm'.instanceCount = call.to - 1
             /\ vm'.store = vm.store
    <3>1. \A c \in Contract : c > vm'.instanceCount => c = call.to \/ c > vm.instanceCount
      BY <1>1, <2>2
    <3>2. vm'.contracts \subseteq 1..vm'.instanceCount
      BY <1>1, <2>2 DEF InstanceInv, Fresh
    <3>3. Fresh(vm)'
      BY <2>2, <3>1, <3>2 DEF InstanceInv, Fresh
    <3>4. QED  BY <2>2, <3>3 DEF InstanceInv, CallersRegistered
  <2>3. CASE /\ pc = "run" /\ call.to \in vm.contracts /\ call.to \in Contract
             /\ vm'.contracts = vm.contracts
             /\ vm'.instanceCount = vm.instanceCount
             /\ \A c \in Contract : c # call.to => vm'.store[c] = vm.store[c]
    <3>1. call.to <= vm.instanceCount
      BY <1>1, <2>3 DEF InstanceInv, Fresh
    <3>2. \A c \in Contract : c > vm.instanceCount => c # call.to
      BY <1>1, <2>3, <3>1
    <3>3. Fresh(vm)'
      BY <2>3, <3>2 DEF InstanceInv, Fresh
    <3>4. QED  BY <2>3, <3>3 DEF InstanceInv, CallersRegistered
  <2>4. QED  BY <1>5, <2>1, <2>2, <2>3, ReturnVM
<1>6. CASE ReturnStep
  BY <1>5, <1>6 DEF ReturnStep, InstanceInv, CallersRegistered, Fresh
<1>7. CASE PushStep
  <2>1. PICK f \in Frame : stack' = Push(f) /\ f.self = call.to /\ f.snap = NoSnap
    BY <1>7 DEF PushStep
  <2>2. /\ Len(stack') = Len(stack) + 1 /\ Len(stack) \in Nat
        /\ stack'[Len(stack) + 1] = f
        /\ \A i \in 1..Len(stack) : stack'[i] = stack[i]
    BY <1>1, <2>1, PushFacts
  <2>3. \A i \in 1..Len(stack') : i = Len(stack) + 1 \/ i \in 1..Len(stack)
    BY <2>2
  <2>4. call.to \in vm'.contracts
    BY <1>7, CallFacts, ReturnVM DEF PushStep
  <2>5. CallersRegistered'
    BY <1>5, <1>7, <2>1, <2>2, <2>3, <2>4 DEF CallersRegistered
  <2>6. ASSUME NEW i \in 1..Len(stack'), stack'[i].snap # NoSnap
        PROVE  /\ Fresh(stack'[i].snap)
               /\ \A j \in 1..i : stack'[j].self \in stack'[i].snap.contracts
    <3>1. i \in 1..Len(stack)
      BY <2>1, <2>2, <2>3, <2>6
    <3>2. \A j \in 1..i : j \in 1..Len(stack)
      BY <3>1
    <3>3. QED  BY <2>2, <2>6, <3>1, <3>2 DEF InstanceInv
  <2>7. QED  BY <1>5, <1>7, <2>5, <2>6 DEF PushStep, InstanceInv, Fresh
<1>8. ASSUME stack # <<>>, NEW d \in Frame, stack' = SetTop(d), d.self = Top.self
      PROVE  /\ Len(stack') = Len(stack) /\ Len(stack) \in 1..Len(stack)
             /\ stack'[Len(stack)] = d
             /\ \A i \in 1..Len(stack) : i # Len(stack) => stack'[i] = stack[i]
             /\ \A i \in 1..Len(stack) : stack'[i].self = stack[i].self
  BY <1>1, <1>8, SetTopFacts DEF Top
<1>9. ASSUME stack # <<>>, NEW d \in Frame, stack' = SetTop(d), d.self = Top.self,
             d.snap \in {vm, Top.snap, NoSnap}
      PROVE  \A i \in 1..Len(stack') :
                stack'[i].snap # NoSnap =>
                    /\ Fresh(stack'[i].snap)
                    /\ \A j \in 1..i : stack'[j].self \in stack'[i].snap.contracts
  <2> SUFFICES ASSUME NEW i \in 1..Len(stack'), stack'[i].snap # NoSnap
               PROVE  /\ Fresh(stack'[i].snap)
                      /\ \A j \in 1..i : stack'[j].self \in stack'[i].snap.contracts
    OBVIOUS
  <2>1. i \in 1..Len(stack) /\ \A j \in 1..i : j \in 1..Len(stack)
    BY <1>8, <1>9
  <2>2. CASE stack'[i].snap = vm
    BY <1>8, <1>9, <2>1, <2>2 DEF InstanceInv, CallersRegistered
  <2>3. CASE stack'[i].snap = stack[i].snap
    BY <1>8, <1>9, <2>1, <2>3 DEF InstanceInv
  <2>4. stack'[i].snap \in {vm, stack[i].snap}
    BY <1>8, <1>9, <2>1 DEF Top
  <2>5. QED  BY <2>2, <2>3, <2>4
<1>10. CASE DispatchStep
  <2>1. PICK d \in Frame : stack' = SetTop(d) /\ d.self = Top.self /\ d.snap \in {vm, NoSnap}
    BY <1>10 DEF DispatchStep
  <2>2. /\ stack # <<>> /\ vm' = vm /\ tx' = tx /\ pc' = "call"
        /\ call'.kind = "instantiate" => call'.to = vm.instanceCount + 1
    BY <1>10 DEF DispatchStep
  <2>3. call'.kind = "instantiate" => \A i \in 1..Len(stack) : stack[i].self # call'.to
    BY <1>1, <2>2 DEF InstanceInv, CallersRegistered, Fresh
  <2>4. QED  BY <1>8, <1>9, <2>1, <2>2, <2>3 DEF InstanceInv, CallersRegistered, Fresh
<1>11. CASE PopStep
  <2>1. /\ Len(stack') = Len(stack) - 1 /\ Len(stack) \in Nat
        /\ \A i \in 1..Len(stack') : stack'[i] = stack[i]
    BY <1>1, <1>11, PopFacts DEF PopStep
  <2>2. \A i \in 1..Len(stack') : i \in 1..Len(stack) /\ \A j \in 1..i : j \in 1..Len(stack')
    BY <2>1
  <2>3. QED  BY <1>11, <2>1, <2>2 DEF PopStep, InstanceInv, CallersRegistered, Fresh
<1>12. CASE ReplyStep
  <2>1. PICK d \in Frame : stack' = SetTop(d) /\ d.self = Top.self /\ d.snap = NoSnap
    BY <1>12 DEF ReplyStep, Charged
  <2>2. stack # <<>> /\ tx' = tx /\ pc' = "call" /\ call'.kind = "reply"
    BY <1>12 DEF ReplyStep
  <2>3. Fresh(vm') /\ \A i \in 1..Len(stack) : stack[i].self \in vm'.contracts
    <3>1. CASE vm' = vm
      BY <3>1 DEF InstanceInv, CallersRegistered
    <3>2. CASE Top.snap \in VMState /\ vm' = Top.snap
      BY <1>8, <2>1, <2>2, <3>2, NoSnapAssumption DEF InstanceInv, Top
    <3>3. QED  BY <1>12, <2>2, <3>1, <3>2, InnermostFacts DEF ReplyStep
  <2>4. QED  BY <1>8, <1>9, <2>1, <2>2, <2>3 DEF InstanceInv, CallersRegistered, Fresh
<1>13. CASE ResumeStep
  <2>1. PICK d \in Frame : stack' = SetTop(d) /\ d.self = Top.self
                           /\ d.snap \in {Top.snap, NoSnap}
    BY <1>13 DEF ResumeStep, Charged
  <2>2. stack # <<>> /\ vm' = vm /\ tx' = tx /\ pc' = "loop"
    BY <1>13 DEF ResumeStep
  <2>3. QED  BY <1>8, <1>9, <2>1, <2>2 DEF InstanceInv, CallersRegistered, Fresh
<1>14. CASE EndStep
  BY <1>14 DEF EndStep, InstanceInv, CallersRegistered, Fresh
<1>15. QED
  BY <1>2, <1>3, <1>4, <1>6, <1>7, <1>10, <1>11, <1>12, <1>13, <1>14, StepKinds

LEMMA InstanceInvInductive == Spec => []InstanceInv
<1>1. Init => InstanceInv
  BY BoundsAssumption
     DEF Init, Genesis, InstanceInv, CallersRegistered, Fresh, Contract
<1>2. TInv /\ InstanceInv /\ [Next]_vars => InstanceInv'
  BY NextInstances
<1>3. QED  BY <1>1, <1>2, TInvInductive, PTL DEF Spec

\* A new contract gets an address no live contract has and finds untouched
\* storage, however often instantiateInternal's counter went back with a
\* rollback and gave the address out again.
THEOREM InstancesFresh == Spec => []FreshInstances
<1>1. InstanceInv => FreshInstances
  BY DEF InstanceInv, Fresh, FreshInstances
<1>2. QED  BY <1>1, InstanceInvInductive, PTL

\* A contract that waits for a sub-message or a reply stays registered
\* through every rollback beneath it, so the lookup of invokeReply finds it.
THEOREM WaitingCallersRegistered == Spec => []CallersRegistered
<1>1. InstanceInv => CallersRegistered
  BY DEF InstanceInv
<1>2. QED  BY <1>1, InstanceInvInductive, PTL

-----------------------------------------------------------------------------
(***************************************************************************)
(* Touched accounts.  A rollback brings an older set of marks back, which  *)
(* is enough because it covers what had changed by then since every        *)
(* snapshot that is older still.                                           *)
(***************************************************************************)
Covers(s, v) == \A a \in Addr : v.balance[a] # s.balance[a] => a \in v.touched

TouchedInv ==
    /\ Covers(tx.snap, vm)
    /\ \A i \in 1..Len(stack) :
        stack[i].snap # NoSnap =>
            /\ Covers(stack[i].snap, vm)
            /\ Covers(tx.snap, stack[i].snap)
            /\ \A j \in 1..i - 1 :
                stack[j].snap # NoSnap => Covers(stack[j].snap, stack[i].snap)

LEMMA NextTouched ==
    ASSUME TInv, TouchedInv, [Next]_vars
    PROVE  TouchedInv'
<1>1. stack \in Seq(Frame) /\ Len(stack) \in Nat
  BY CallFacts
<1> DEFINE Snaps(s, t, v) ==
            \A i \in 1..Len(s) :
                s[i].snap # NoSnap =>
                    /\ Covers(s[i].snap, v)
                    /\ Covers(t, s[i].snap)
                    /\ \A j \in 1..i - 1 :
                        s[j].snap # NoSnap => Covers(s[j].snap, s[i].snap)
<1>2. CASE UNCHANGED vars
  BY <1>2 DEF TouchedInv, Covers, vars
<1>3. CASE BeginStep
  BY <1>3 DEF BeginStep, TouchedInv, Covers
\* A step that moves marked tokens covers what was covered before.
<1>4. ASSUME vm.touched \subseteq vm'.touched,
             \A a \in Addr : vm'.balance[a] # vm.balance[a] => a \in vm'.touched
      PROVE  /\ Covers(tx.snap, vm')
             /\ Snaps(stack, tx.snap, vm')
  BY <1>4 DEF TouchedInv, Covers
<1>5. CASE ProceedStep
  BY <1>4, <1>5, ProceedVM DEF ProceedStep, TouchedInv, Covers
<1>6. CASE ReturnStep
  BY <1>4, <1>6, ReturnVM DEF ReturnStep, TouchedInv, Covers
\* A stack whose frames have no snapshot but those they had.
<1>7. ASSUME NEW n \in Nat, Len(stack') = n, UNCHANGED tx,
             \A i \in 1..n : \/ i \in 1..Len(stack) /\ stack'[i].snap = stack[i].snap
                             \/ stack'[i].snap = NoSnap,
             vm.touched \subseteq vm'.touched,
             \A a \in Addr : vm'.balance[a] # vm.balance[a] => a \in vm'.touched
      PROVE  TouchedInv'
  <2>1. Covers(tx.snap, vm') /\ Snaps(stack, tx.snap, vm')
    BY <1>4, <1>7
  <2>2. ASSUME NEW i \in 1..n, stack'[i].snap # NoSnap
        PROVE  /\ Covers(stack'[i].snap, vm')
               /\ Covers(tx.snap, stack'[i].snap)
               /\ \A j \in 1..i - 1 :
                    stack'[j].snap # NoSnap => Covers(stack'[j].snap, stack'[i].snap)
    <3>1. i \in 1..Len(stack) /\ stack'[i].snap = stack[i].snap
      BY <1>7, <2>2
    <3>2. \A j \in 1..i - 1 : j \in 1..n /\ j \in 1..Len(stack)
      BY <3>1
    <3>3. QED  BY <1>7, <2>1, <2>2, <3>1, <3>2
  <2>3. QED  BY <1>7, <2>1, <2>2 DEF TouchedInv, Covers
<1>8. CASE PushStep
  <2>1. PICK f \in Frame : stack' = Push(f) /\ f.snap = NoSnap
    BY <1>8 DEF PushStep
  <2>2. /\ Len(stack') = Len(stack) + 1
        /\ stack'[Len(stack) + 1] = f
        /\ \A i \in 1..Len(stack) : stack'[i] = stack[i]
    BY <1>1, <2>1, PushFacts
  <2>3. \A i \in 1..Len(stack) + 1 :
            \/ i \in 1..Len(stack) /\ stack'[i].snap = stack[i].snap
            \/ stack'[i].snap = NoSnap
    BY <1>1, <2>1, <2>2
  <2>4. vm'.touched = vm.touched /\ vm'.balance = vm.balance
    BY <1>8, ReturnVM
  <2>5. QED  BY <1>1, <1>7, <1>8, <2>2, <2>3, <2>4 DEF PushStep
<1>9. ASSUME stack # <<>>, NEW d \in Frame, stack' = SetTop(d)
      PROVE  /\ Len(stack') = Len(stack) /\ Len(stack) \in 1..Len(stack)
             /\ stack'[Len(stack)] = d
             /\ \A i \in 1..Len(stack) : i # Len(stack) => stack'[i] = stack[i]
  BY <1>1, <1>9, SetTopFacts
<1>10. CASE DispatchStep
  <2>1. PICK d \in Frame : stack' = SetTop(d) /\ d.snap \in {vm, NoSnap}
    BY <1>10 DEF DispatchStep
  <2>2. stack # <<>> /\ vm' = vm /\ tx' = tx
    BY <1>10 DEF DispatchStep
  <2>3. ASSUME NEW i \in 1..Len(stack), stack'[i].snap # NoSnap
        PROVE  /\ Covers(stack'[i].snap, vm)
               /\ Covers(tx.snap, stack'[i].snap)
               /\ \A j \in 1..i - 1 :
                    stack'[j].snap # NoSnap => Covers(stack'[j].snap, stack'[i].snap)
    <3>1. \A j \in 1..i - 1 : j \in 1..Len(stack) /\ j # Len(stack)
      BY <1>1
    <3>2. CASE i = Len(stack)
      <4>1. stack'[i].snap = vm
        BY <1>9, <2>1, <2>2, <2>3, <3>2
      <4>2. QED  BY <1>9, <2>1, <2>2, <3>1, <4>1 DEF TouchedInv, Covers
    <3>3. CASE i # Len(stack)
      BY <1>9, <2>1, <2>2, <2>3, <3>1, <3>3 DEF TouchedInv
    <3>4. QED  BY <3>2, <3>3
  <2>4. QED  BY <1>9, <2>1, <2>2, <2>3 DEF TouchedInv, Covers
<1>11. CASE PopStep
  <2>1. /\ Len(stack') = Len(stack) - 1 /\ Len(stack') \in Nat
        /\ \A i \in 1..Len(stack') : stack'[i] = stack[i]
    BY <1>1, <1>11, PopFacts DEF PopStep
  <2>2. \A i \in 1..Len(stack') : i \in 1..Len(stack) /\ stack'[i].snap = stack[i].snap
    BY <1>1, <2>1
  <2>3. QED  BY <1>7, <1>11, <2>1, <2>2 DEF PopStep
<1>12. CASE ReplyStep
  <2>1. PICK d \in Frame : stack' = SetTop(d) /\ d.snap = NoSnap
    BY <1>12 DEF ReplyStep
  <2>2. stack # <<>> /\ tx' = tx
    BY <1>12 DEF ReplyStep
  <2>3. /\ Len(stack') = Len(stack)
        /\ \A i \in 1..Len(stack) : \/ i # Len(stack) /\ stack'[i].snap = stack[i].snap
                                    \/ stack'[i].snap = NoSnap
    BY <1>9, <2>1, <2>2
  <2>4. CASE vm' = vm
    BY <1>1, <1>7, <2>2, <2>3, <2>4
  <2>5. CASE Top.snap \in VMState /\ vm' = Top.snap
    <3> DEFINE n == Len(stack)
    <3>1. stack[n].snap = vm' /\ stack[n].snap # NoSnap /\ n \in 1..n
      BY <1>9, <2>1, <2>2, <2>5, NoSnapAssumption DEF Top
    <3>2. Covers(tx.snap, vm')
      BY <3>1 DEF TouchedInv
    <3>3. ASSUME NEW i \in 1..n, stack'[i].snap # NoSnap
          PROVE  /\ Covers(stack'[i].snap, vm')
                 /\ Covers(tx.snap, stack'[i].snap)
                 /\ \A j \in 1..i - 1 :
                      stack'[j].snap # NoSnap => Covers(stack'[j].snap, stack'[i].snap)
      <4>1. i # n /\ stack'[i].snap = stack[i].snap /\ i \in 1..n - 1
        BY <1>1, <2>3, <3>3
      <4>2. \A j \in 1..i - 1 : j \in 1..n
        BY <1>1
      <4>3. QED  BY <2>3, <3>1, <3>3, <4>1, <4>2 DEF TouchedInv
    <3>4. QED  BY <2>2, <2>3, <3>2, <3>3 DEF TouchedInv, Covers
  <2>6. QED  BY <1>12, <2>2, <2>4, <2>5, InnermostFacts DEF ReplyStep
<1>13. CASE ResumeStep
  <2>1. PICK d \in Frame : stack' = SetTop(d) /\ d.snap \in {Top.snap, NoSnap}
    BY <1>13 DEF ResumeStep
  <2>2. stack # <<>> /\ vm' = vm /\ tx' = tx
    BY <1>13 DEF ResumeStep
  <2>3. /\ Len(stack') = Len(stack)
        /\ \A i \in 1..Len(stack) : \/ stack'[i].snap = stack[i].snap
                                    \/ stack'[i].snap = NoSnap
    BY <1>9, <2>1, <2>2 DEF Top
  <2>4. QED  BY <1>1, <1>7, <2>2, <2>3
<1>14. CASE EndStep
  BY <1>14 DEF EndStep, TouchedInv, Covers
<1>15. QED
  BY <1>2, <1>3, <1>5, <1>6, <1>8, <1>10, <1>11, <1>12, <1>13, <1>14, StepKinds

\* Whatever is rolled back, an account whose balance a transaction changed is
\* marked, so the accounts TouchedAddresses hands to the node to persist are
\* all of them.
THEOREM TouchedComplete == Spec => []TouchedCoversChanges
<1>1. Init => TouchedInv
  BY DEF Init, TouchedInv, Covers
<1>2. TInv /\ TouchedInv /\ [Next]_vars => TouchedInv'
  BY NextTouched
<1>3. TouchedInv => TouchedCoversChanges
  BY DEF TouchedInv, Covers, TouchedCoversChanges, ChangedSince
<1>4. QED  BY <1>1, <1>2, <1>3, TInvInductive, PTL DEF Spec

-----------------------------------------------------------------------------
(***************************************************************************)
(* The supply.  A transfer keeps the sum of the balances, and a rollback   *)
(* brings back balances that had the same sum.                             *)
(***************************************************************************)
Conserved(v) == Total(v.balance) = GenesisBalance * Cardinality(Addr)

SupplyInv ==
    /\ Conserved(vm)
    /\ Conserved(tx.snap)
    /\ \A i \in 1..Len(stack) : stack[i].snap # NoSnap => Conserved(stack[i].snap)

LEMMA AccountsFinite == IsFiniteSet(Addr)
<1>1. IsFiniteSet(Users) /\ IsFiniteSet(1..MaxInstances)
  BY UsersAssumption, BoundsAssumption, FS_Interval
<1>2. QED  BY <1>1, FS_Union DEF Addr, Contract

\* What one coin does to the balances.
LEMMA TransferBalance ==
    ASSUME NEW v \in VMState, NEW from \in Addr, NEW to \in Addr, NEW amt \in Nat,
           Affordable(v, from, amt)
    PROVE  Payment(Addr, v.balance, Transfer(v, from, to, amt).balance, from, to, amt)
<1> DEFINE b == Move(v.balance, from, to, amt)
           t == v.touched \cup {from, to}
<1>1. v.balance \in [Addr -> Nat] /\ amt <= v.balance[from]
  BY DEF VMState, Affordable
<1>2. Payment(Addr, v.balance, b, from, to, amt)
  BY <1>1 DEF Move, Payment
<1>3. Transfer(v, from, to, amt) = [v EXCEPT !.balance = b, !.touched = t]
  BY DEF Transfer
<1> HIDE DEF b
<1>4. Transfer(v, from, to, amt).balance = b
  BY <1>3 DEF VMState
<1>5. QED  BY <1>2, <1>4

LEMMA InitSupply == Init => SupplyInv
<1> SUFFICES ASSUME Init PROVE SupplyInv
  OBVIOUS
<1> DEFINE b == [a \in Addr |-> GenesisBalance]
           c == [a \in Addr |-> IF a \in Addr THEN GenesisBalance ELSE 0]
<1>1. Total(c) = GenesisBalance * Cardinality(Addr)
  BY AccountsFinite, BoundsAssumption, TotalConstant
<1>2. b = c
  OBVIOUS
<1>3. Genesis.balance = b
  BY DEF Genesis
<1> HIDE DEF b, c
<1>4. Conserved(Genesis)
  BY <1>1, <1>2, <1>3 DEF Conserved
<1>5. vm = Genesis /\ tx.snap = Genesis /\ Len(stack) = 0
  BY DEF Init
<1>6. QED  BY <1>4, <1>5 DEF SupplyInv

LEMMA NextSupply ==
    ASSUME TInv, SupplyInv, [Next]_vars
    PROVE  SupplyInv'
<1>1. stack \in Seq(Frame) /\ Len(stack) \in Nat /\ vm \in VMState
  BY CallFacts
<1>2. CASE UNCHANGED vars
  BY <1>2 DEF SupplyInv, Conserved, vars
<1>3. CASE BeginStep
  BY <1>3 DEF BeginStep, SupplyInv, Conserved
<1>4. CASE ProceedStep
  <2>1. call.from \in Addr /\ call.to \in Addr
    BY CallFacts
  <2>2. CASE vm' = vm
    BY <1>4, <2>2 DEF ProceedStep, SupplyInv, Conserved
  <2>3. CASE pc = "call" /\ call.kind = "instantiate" /\ vm' = Register(vm, call.to)
    <3>1. call.to \in Contract
      BY <2>3 DEF TInv, Control, CallControl
    <3>2. vm'.balance = vm.balance
      BY <1>1, <2>3, <3>1, RegisterFacts
    <3>3. QED  BY <1>4, <3>2 DEF ProceedStep, SupplyInv, Conserved
  <2>4. ASSUME NEW amt \in Nat, Affordable(vm, call.from, amt),
               vm' = Transfer(vm, call.from, call.to, amt)
        PROVE  SupplyInv'
    <3>1. Payment(Addr, vm.balance, vm'.balance, call.from, call.to, amt)
      BY <1>1, <2>1, <2>4, TransferBalance
    <3>2. Total(vm'.balance) = Total(vm.balance)
      BY <3>1, AccountsFinite, TotalPayment
    <3>3. QED  BY <1>4, <3>2 DEF ProceedStep, SupplyInv, Conserved
  <2>5. QED  BY <1>4, <2>2, <2>3, <2>4 DEF ProceedStep
<1>5. CASE ReturnStep
  BY <1>5, ReturnVM DEF ReturnStep, SupplyInv, Conserved
<1>6. CASE PushStep
  <2>1. PICK f \in Frame : stack' = Push(f) /\ f.snap = NoSnap
    BY <1>6 DEF PushStep
  <2>2. /\ Len(stack') = Len(stack) + 1
        /\ stack'[Len(stack) + 1] = f
        /\ \A i \in 1..Len(stack) : stack'[i] = stack[i]
    BY <1>1, <2>1, PushFacts
  <2>3. \A i \in 1..Len(stack') : i \in 1..Len(stack) \/ i = Len(stack) + 1
    BY <1>1, <2>2
  <2>4. vm'.balance = vm.balance /\ tx' = tx
    BY <1>6, ReturnVM DEF PushStep
  <2>5. QED  BY <2>1, <2>2, <2>3, <2>4 DEF SupplyInv, Conserved
<1>7. ASSUME stack # <<>>, NEW d \in Frame, stack' = SetTop(d),
             d.snap \in {vm, Top.snap, NoSnap}, UNCHANGED tx, Conserved(vm')
      PROVE  SupplyInv'
  <2>1. /\ Len(stack') = Len(stack) /\ Len(stack) \in 1..Len(stack)
        /\ stack'[Len(stack)] = d
        /\ \A i \in 1..Len(stack) : i # Len(stack) => stack'[i] = stack[i]
    BY <1>1, <1>7, SetTopFacts
  <2>2. d.snap # NoSnap => Conserved(d.snap)
    BY <1>7, <2>1 DEF SupplyInv, Top
  <2>3. QED  BY <1>7, <2>1, <2>2 DEF SupplyInv, Conserved
<1>8. CASE DispatchStep
  <2>1. PICK d \in Frame : stack' = SetTop(d) /\ d.snap \in {vm, NoSnap}
    BY <1>8 DEF DispatchStep
  <2>2. stack # <<>> /\ vm' = vm /\ tx' = tx
    BY <1>8 DEF DispatchStep
  <2>3. QED  BY <1>7, <2>1, <2>2 DEF SupplyInv
<1>9. CASE PopStep
  BY <1>1, <1>9, PopFacts DEF PopStep, SupplyInv, Conserved
<1>10. CASE ReplyStep
  <2>1. PICK d \in Frame : stack' = SetTop(d) /\ d.snap = NoSnap
    BY <1>10 DEF ReplyStep
  <2>2. stack # <<>> /\ tx' = tx /\ Top.awaiting = "sub"
    BY <1>10 DEF ReplyStep
  <2>3. Conserved(vm')
    <3>1. CASE vm' = vm
      BY <3>1 DEF SupplyInv
    <3>2. CASE Top.snap \in VMState /\ vm' = Top.snap
      <4>1. Len(stack) \in 1..Len(stack) /\ Top.snap # NoSnap
        BY <1>1, <2>2, <3>2, TopFacts, NoSnapAssumption
      <4>2. QED  BY <3>2, <4>1 DEF SupplyInv, Top
    <3>3. QED  BY <1>10, <2>2, <3>1, <3>2, InnermostFacts DEF ReplyStep
  <2>4. QED  BY <1>7, <2>1, <2>2, <2>3
<1>11. CASE ResumeStep
  <2>1. PICK d \in Frame : stack' = SetTop(d) /\ d.snap \in {Top.snap, NoSnap}
    BY <1>11 DEF ResumeStep
  <2>2. stack # <<>> /\ vm' = vm /\ tx' = tx
    BY <1>11 DEF ResumeStep
  <2>3. QED  BY <1>7, <2>1, <2>2 DEF SupplyInv
<1>12. CASE EndStep
  BY <1>12 DEF EndStep, SupplyInv, Conserved
<1>13. QED
  BY <1>2, <1>3, <1>4, <1>5, <1>6, <1>8, <1>9, <1>10, <1>11, <1>12, StepKinds

\* transferFunds makes no token and burns none, for any number of accounts,
\* any coins and any nesting of payments, refusals and rollbacks.
THEOREM SupplyNeverChanges == Spec => []SupplyConserved
<1>1. TInv /\ SupplyInv /\ [Next]_vars => SupplyInv'
  BY NextSupply
<1>2. SupplyInv => SupplyConserved
  BY DEF SupplyInv, Conserved, SupplyConserved
<1>3. QED  BY <1>1, <1>2, InitSupply, TInvInductive, PTL DEF Spec

-----------------------------------------------------------------------------
(***************************************************************************)
(* What a list of events says: of no event, of one, and of two lists.      *)
(***************************************************************************)
Inflow(events, a) ==
    [i \in DOMAIN events |-> IF events[i].to = a THEN Total(events[i].coins) ELSE 0]
Outflow(events, a) ==
    [i \in DOMAIN events |-> IF events[i].from = a THEN Total(events[i].coins) ELSE 0]

LEMMA SequencesEqual ==
    ASSUME NEW S, NEW s \in Seq(S), NEW t \in Seq(S), Len(s) = Len(t),
           \A i \in 1..Len(s) : s[i] = t[i]
    PROVE  s = t
OBVIOUS

\* One sequence after another.
LEMMA ConcatFacts ==
    ASSUME NEW S, NEW s \in Seq(S), NEW t \in Seq(S)
    PROVE  /\ s \o t \in Seq(S)
           /\ Len(s \o t) = Len(s) + Len(t)
           /\ DOMAIN s = 1..Len(s) /\ DOMAIN t = 1..Len(t)
           /\ DOMAIN (s \o t) = 1..(Len(s) + Len(t))
           /\ \A i \in 1..Len(s) : (s \o t)[i] = s[i]
           /\ \A i \in 1..Len(t) : (s \o t)[i + Len(s)] = t[i]
<1>1. s \o t \in Seq(S) /\ Len(s \o t) = Len(s) + Len(t)
  OBVIOUS
<1>2. \A i \in 1..Len(s) : (s \o t)[i] = s[i]
  OBVIOUS
<1>3. \A i \in 1..Len(t) : (s \o t)[i + Len(s)] = t[i]
  OBVIOUS
<1>4. DOMAIN s = 1..Len(s) /\ DOMAIN t = 1..Len(t)
  OBVIOUS
<1> DEFINE c == s \o t
<1>5. c \in Seq(S)
  BY <1>1
<1> HIDE DEF c
<1>6. DOMAIN c = 1..Len(c)
  BY <1>5
<1>7. QED  BY <1>1, <1>2, <1>3, <1>4, <1>6 DEF c

\* The coins of an event have a sum.
LEMMA CoinsTotal ==
    ASSUME NEW events \in Seq(Event), NEW i \in 1..Len(events)
    PROVE  Total(events[i].coins) \in Nat
<1>1. events[i] \in Event
  OBVIOUS
<1>2. events[i].coins \in Seq(Int)
  BY <1>1 DEF Event
<1>3. QED  BY <1>2, TotalConcat

LEMMA FlowType ==
    ASSUME NEW events \in Seq(Event), NEW a
    PROVE  /\ Inflow(events, a) \in Seq(Int) /\ Len(Inflow(events, a)) = Len(events)
           /\ Outflow(events, a) \in Seq(Int) /\ Len(Outflow(events, a)) = Len(events)
           /\ Received(events, a) = Total(Inflow(events, a))
           /\ Spent(events, a) = Total(Outflow(events, a))
           /\ Received(events, a) \in Nat /\ Spent(events, a) \in Nat
<1> DEFINE n == Len(events)
<1>1. n \in Nat /\ DOMAIN events = 1..n
  OBVIOUS
<1>2. \A i \in 1..n : Total(events[i].coins) \in Int
  BY CoinsTotal
<1> HIDE DEF n
<1>3. Inflow(events, a) \in [1..n -> Int] /\ Outflow(events, a) \in [1..n -> Int]
  BY <1>1, <1>2 DEF Inflow, Outflow
<1>4. /\ Inflow(events, a) \in Seq(Int) /\ Len(Inflow(events, a)) = n
      /\ Outflow(events, a) \in Seq(Int) /\ Len(Outflow(events, a)) = n
  BY <1>1, <1>3
<1>5. /\ Received(events, a) = Total(Inflow(events, a))
      /\ Spent(events, a) = Total(Outflow(events, a))
  BY DEF Received, Spent, Inflow, Outflow
<1>6. Received(events, a) \in Nat /\ Spent(events, a) \in Nat
  BY <1>4, <1>5, TotalConcat
<1>7. QED  BY <1>4, <1>5, <1>6 DEF n

\* h is f with g after it.
InParts(f, g, h) ==
    /\ f \in Seq(Int) /\ g \in Seq(Int) /\ h \in Seq(Int)
    /\ Len(h) = Len(f) + Len(g)
    /\ \A i \in 1..Len(f) : h[i] = f[i]
    /\ \A i \in 1..Len(g) : h[i + Len(f)] = g[i]

LEMMA TotalParts ==
    ASSUME NEW f, NEW g, NEW h, InParts(f, g, h)
    PROVE  Total(h) = Total(f) + Total(g)
<1> USE DEF InParts
<1> DEFINE k == f \o g
<1>1. k \in Seq(Int) /\ Len(k) = Len(f) + Len(g)
  OBVIOUS
<1>2. \A i \in 1..Len(f) : k[i] = f[i]
  OBVIOUS
<1>3. \A i \in 1..Len(g) : k[i + Len(f)] = g[i]
  OBVIOUS
<1>4. Total(k) = Total(f) + Total(g)
  BY TotalConcat
<1> HIDE DEF k
<1>5. ASSUME NEW i \in 1..Len(h)
      PROVE  h[i] = k[i]
  <2>1. CASE i \in 1..Len(f)
    BY <1>2, <2>1
  <2>2. CASE i \notin 1..Len(f)
    <3>1. Len(f) \in Nat /\ Len(g) \in Nat /\ i \in Int
      OBVIOUS
    <3>2. i - Len(f) \in 1..Len(g) /\ i = (i - Len(f)) + Len(f)
      BY <2>2, <3>1
    <3>3. QED  BY <1>3, <3>2
  <2>3. QED  BY <2>1, <2>2
<1>6. h \in Seq(Int) /\ Len(h) = Len(k)
  BY <1>1
<1>7. h = k
  BY <1>1, <1>5, <1>6, SequencesEqual
<1>8. QED  BY <1>4, <1>7

LEMMA FlowConcat ==
    ASSUME NEW s \in Seq(Event), NEW t \in Seq(Event), NEW a
    PROVE  /\ Received(s \o t, a) = Received(s, a) + Received(t, a)
           /\ Spent(s \o t, a) = Spent(s, a) + Spent(t, a)
           /\ Received(s, a) \in Nat /\ Spent(s, a) \in Nat
           /\ Received(t, a) \in Nat /\ Spent(t, a) \in Nat
<1> DEFINE c == s \o t
<1>1. /\ c \in Seq(Event)
      /\ Len(s) \in Nat /\ Len(t) \in Nat /\ Len(c) = Len(s) + Len(t)
      /\ DOMAIN s = 1..Len(s) /\ DOMAIN t = 1..Len(t) /\ DOMAIN c = 1..Len(c)
      /\ \A i \in 1..Len(s) : c[i] = s[i]
      /\ \A i \in 1..Len(t) : c[i + Len(s)] = t[i]
  BY ConcatFacts
<1> HIDE DEF c
<1>4. /\ \A i \in 1..Len(s) : Inflow(c, a)[i] = Inflow(s, a)[i]
      /\ \A i \in 1..Len(t) : Inflow(c, a)[i + Len(s)] = Inflow(t, a)[i]
      /\ \A i \in 1..Len(s) : Outflow(c, a)[i] = Outflow(s, a)[i]
      /\ \A i \in 1..Len(t) : Outflow(c, a)[i + Len(s)] = Outflow(t, a)[i]
  <2>1. \A i \in 1..Len(s) : i \in 1..Len(c)
    BY <1>1
  <2>2. \A i \in 1..Len(t) : i + Len(s) \in 1..Len(c)
    BY <1>1
  <2>3. QED  BY <1>1, <2>1, <2>2 DEF Inflow, Outflow
<1>5. InParts(Inflow(s, a), Inflow(t, a), Inflow(c, a))
  BY <1>1, <1>4, FlowType DEF InParts
<1>6. InParts(Outflow(s, a), Outflow(t, a), Outflow(c, a))
  BY <1>1, <1>4, FlowType DEF InParts
<1>8. Received(c, a) = Received(s, a) + Received(t, a)
  BY <1>1, <1>5, TotalParts, FlowType
<1>9. Spent(c, a) = Spent(s, a) + Spent(t, a)
  BY <1>1, <1>6, TotalParts, FlowType
<1>10. QED  BY <1>8, <1>9, FlowType DEF c

\* The runs and the contracts of both lists.
LEMMA RunsConcat ==
    ASSUME NEW s \in Seq(Event), NEW t \in Seq(Event)
    PROVE  /\ Stamps(s \o t) = Stamps(s) \cup Stamps(t)
           /\ Created(s \o t) = Created(s) \cup Created(t)
           /\ \A i \in Runs(s \o t) : \/ i \in Runs(s) /\ (s \o t)[i] = s[i]
                                      \/ \E j \in Runs(t) : /\ i = j + Len(s)
                                                            /\ (s \o t)[i] = t[j]
           /\ Runs(s) \subseteq 1..Len(s) /\ Runs(t) \subseteq 1..Len(t)
<1> DEFINE c == s \o t
<1>1. /\ Len(s) \in Nat /\ Len(t) \in Nat
      /\ DOMAIN s = 1..Len(s) /\ DOMAIN t = 1..Len(t)
      /\ DOMAIN c = 1..(Len(s) + Len(t))
      /\ \A i \in 1..Len(s) : c[i] = s[i]
      /\ \A i \in 1..Len(t) : c[i + Len(s)] = t[i]
  BY ConcatFacts
<1> HIDE DEF c
<1>2. ASSUME NEW i \in DOMAIN c, i \notin DOMAIN s
      PROVE  \E j \in DOMAIN t : i = j + Len(s) /\ c[i] = t[j]
  <2>1. i - Len(s) \in 1..Len(t) /\ i = (i - Len(s)) + Len(s)
    BY <1>1, <1>2
  <2>2. QED  BY <1>1, <2>1
<1>3. /\ \A i \in DOMAIN s : i \in DOMAIN c /\ c[i] = s[i]
      /\ \A i \in DOMAIN t : i + Len(s) \in DOMAIN c /\ c[i + Len(s)] = t[i]
  BY <1>1
<1>4. \A i \in Runs(c) : \/ i \in Runs(s) /\ c[i] = s[i]
                         \/ \E j \in Runs(t) : i = j + Len(s) /\ c[i] = t[j]
  BY <1>2, <1>3 DEF Runs
<1>5. Stamps(c) = Stamps(s) \cup Stamps(t)
  <2>1. Stamps(c) \subseteq Stamps(s) \cup Stamps(t)
    BY <1>4 DEF Stamps
  <2>2. Runs(s) \subseteq Runs(c) /\ \A j \in Runs(t) : j + Len(s) \in Runs(c)
    BY <1>3 DEF Runs
  <2>3. \A i \in Runs(s) : c[i] = s[i]
    BY <1>3 DEF Runs
  <2>4. \A i \in Runs(t) : c[i + Len(s)] = t[i]
    BY <1>3 DEF Runs
  <2>5. Stamps(s) \subseteq Stamps(c)
    BY <2>2, <2>3 DEF Stamps
  <2>6. Stamps(t) \subseteq Stamps(c)
    BY <2>2, <2>4 DEF Stamps
  <2>7. QED  BY <2>1, <2>5, <2>6
<1>6. Created(c) = Created(s) \cup Created(t)
  <2>1. Created(c) \subseteq Created(s) \cup Created(t)
    BY <1>2, <1>3 DEF Created
  <2>2. Created(s) \subseteq Created(c)
    BY <1>3 DEF Created
  <2>3. Created(t) \subseteq Created(c)
    BY <1>3 DEF Created
  <2>4. QED  BY <2>1, <2>2, <2>3
<1>7. Runs(s) \subseteq 1..Len(s) /\ Runs(t) \subseteq 1..Len(t)
  BY <1>1 DEF Runs
<1>8. QED  BY <1>4, <1>5, <1>6, <1>7 DEF c

LEMMA NoEvents ==
    /\ Runs(<<>>) = {} /\ Stamps(<<>>) = {} /\ Created(<<>>) = {}
    /\ \A a : Received(<<>>, a) = 0 /\ Spent(<<>>, a) = 0
<1>1. Runs(<<>>) = {} /\ Stamps(<<>>) = {} /\ Created(<<>>) = {}
  BY DEF Runs, Stamps, Created
<1>2. ASSUME NEW a
      PROVE  Received(<<>>, a) = 0 /\ Spent(<<>>, a) = 0
  <2>1. Inflow(<<>>, a) = <<>> /\ Outflow(<<>>, a) = <<>>
    BY DEF Inflow, Outflow
  <2>2. Received(<<>>, a) = Total(Inflow(<<>>, a)) /\ Spent(<<>>, a) = Total(Outflow(<<>>, a))
    BY DEF Received, Spent, Inflow, Outflow
  <2>3. QED  BY <2>1, <2>2, TotalShort
<1>3. QED  BY <1>1, <1>2

LEMMA OneEvent ==
    ASSUME NEW e \in Event
    PROVE  /\ <<e>> \in Seq(Event)
           /\ Runs(<<e>>) = IF e.stamp = 0 THEN {} ELSE {1}
           /\ Stamps(<<e>>) = IF e.stamp = 0 THEN {} ELSE {e.stamp}
           /\ Created(<<e>>) = IF e.kind = "instantiate" THEN {e.to} ELSE {}
           /\ Total(e.coins) \in Nat
           /\ \A a : /\ Received(<<e>>, a) = IF e.to = a THEN Total(e.coins) ELSE 0
                     /\ Spent(<<e>>, a) = IF e.from = a THEN Total(e.coins) ELSE 0
<1> DEFINE s == <<e>>
<1>1. s \in Seq(Event) /\ Len(s) = 1 /\ s[1] = e
  OBVIOUS
<1>2. DOMAIN s = {1}
  OBVIOUS
<1> HIDE DEF s
<1>3. Runs(s) = IF e.stamp = 0 THEN {} ELSE {1}
  BY <1>1, <1>2 DEF Runs
<1>4. Stamps(s) = IF e.stamp = 0 THEN {} ELSE {e.stamp}
  BY <1>1, <1>3 DEF Stamps
<1>5. Created(s) = IF e.kind = "instantiate" THEN {e.to} ELSE {}
  BY <1>1, <1>2 DEF Created
<1>6. Total(e.coins) \in Nat
  <2>1. e.coins \in Seq(Int)
    BY DEF Event
  <2>2. QED  BY <2>1, TotalConcat
<1>7. ASSUME NEW a
      PROVE  /\ Received(s, a) = IF e.to = a THEN Total(e.coins) ELSE 0
             /\ Spent(s, a) = IF e.from = a THEN Total(e.coins) ELSE 0
  <2> DEFINE m == IF e.to = a THEN Total(e.coins) ELSE 0
             n == IF e.from = a THEN Total(e.coins) ELSE 0
  <2>1. m \in Nat /\ n \in Nat
    BY <1>6
  <2>2. Inflow(s, a)[1] = m /\ Outflow(s, a)[1] = n
    BY <1>1, <1>2 DEF Inflow, Outflow
  <2> HIDE DEF m, n
  <2>3. <<m>> \in Seq(Int) /\ Len(<<m>>) = 1 /\ <<n>> \in Seq(Int) /\ Len(<<n>>) = 1
    BY <2>1
  <2>4. /\ Inflow(s, a) \in Seq(Int) /\ Len(Inflow(s, a)) = 1
        /\ Outflow(s, a) \in Seq(Int) /\ Len(Outflow(s, a)) = 1
        /\ Received(s, a) = Total(Inflow(s, a)) /\ Spent(s, a) = Total(Outflow(s, a))
    BY <1>1, FlowType
  <2>5. Inflow(s, a) = <<m>> /\ Outflow(s, a) = <<n>>
    BY <2>2, <2>3, <2>4, SequencesEqual
  <2>6. Received(s, a) = m /\ Spent(s, a) = n
    BY <2>1, <2>4, <2>5, TotalShort
  <2>7. QED  BY <2>6 DEF m, n
<1>8. QED  BY <1>1, <1>3, <1>4, <1>5, <1>6, <1>7 DEF s

-----------------------------------------------------------------------------
(***************************************************************************)
(* A point of a transaction is the state and the number of runs so far.    *)
(* The events between two points explain the second from the first: they   *)
(* name the runs that wrote in between, the payments and the contracts.    *)
(***************************************************************************)
Stamped(v, n) == \A c \in Contract : v.store[c] \subseteq 0..n
Point == {p \in [vm : VMState, calls : Nat] : Stamped(p.vm, p.calls)}

Reported(p, events, q) ==
    /\ p.calls <= q.calls
    /\ \A c \in Contract : p.vm.store[c] \subseteq q.vm.store[c]
    /\ Written(p.vm, q.vm) = Stamps(events)
    /\ \A i \in Runs(events) : p.calls < events[i].stamp /\ events[i].stamp <= q.calls
    /\ \A i, j \in Runs(events) : i < j => events[i].stamp < events[j].stamp

Accounted(p, events, q) ==
    /\ \A a \in Addr : q.vm.balance[a] + Spent(events, a) =
                           p.vm.balance[a] + Received(events, a)
    /\ q.vm.contracts = p.vm.contracts \cup Created(events)
    /\ p.vm.contracts \cap Created(events) = {}

Explained(p, events, q) == Reported(p, events, q) /\ Accounted(p, events, q)

LEMMA PointFacts ==
    ASSUME NEW p \in Point
    PROVE  /\ p.vm \in VMState /\ p.calls \in Nat /\ Stamped(p.vm, p.calls)
           /\ p.vm.balance \in [Addr -> Nat]
           /\ p.vm.store \in [Contract -> SUBSET Nat]
BY DEF Point, VMState

\* What was written between two points.
LEMMA WrittenMember ==
    ASSUME NEW v, NEW w, NEW x
    PROVE  x \in Written(v, w) <=> \E c \in Contract : x \in w.store[c] /\ x \notin v.store[c]
BY DEF Written

\* Nothing happened, but runs that were undone may have been counted.
LEMMA NothingExplained ==
    ASSUME NEW p \in Point, NEW q \in Point, p.vm = q.vm, p.calls <= q.calls
    PROVE  Explained(p, <<>>, q)
<1>1. Written(p.vm, q.vm) = {}
  BY WrittenMember
<1>2. Reported(p, <<>>, q)
  BY <1>1, NoEvents DEF Reported
<1>3. Accounted(p, <<>>, q)
  BY NoEvents DEF Accounted
<1>4. QED  BY <1>2, <1>3 DEF Explained

\* The events of two stretches explain the whole.
LEMMA ExplainedTogether ==
    ASSUME NEW p \in Point, NEW q \in Point, NEW r \in Point,
           NEW s \in Seq(Event), NEW t \in Seq(Event),
           Explained(p, s, q), Explained(q, t, r)
    PROVE  Explained(p, s \o t, r)
<1> DEFINE c == s \o t
<1>1. /\ Reported(p, s, q) /\ Reported(q, t, r)
      /\ Accounted(p, s, q) /\ Accounted(q, t, r)
  BY DEF Explained
<1>2. /\ Stamps(c) = Stamps(s) \cup Stamps(t)
      /\ Created(c) = Created(s) \cup Created(t)
      /\ \A i \in Runs(c) : \/ i \in Runs(s) /\ c[i] = s[i]
                            \/ \E j \in Runs(t) : i = j + Len(s) /\ c[i] = t[j]
      /\ Runs(s) \subseteq 1..Len(s) /\ Runs(t) \subseteq 1..Len(t)
      /\ Len(s) \in Nat
  BY RunsConcat
<1>3. \A a : /\ Received(c, a) = Received(s, a) + Received(t, a)
             /\ Spent(c, a) = Spent(s, a) + Spent(t, a)
             /\ Received(s, a) \in Nat /\ Spent(s, a) \in Nat
             /\ Received(t, a) \in Nat /\ Spent(t, a) \in Nat
  BY FlowConcat
<1> HIDE DEF c
<1>4. /\ p.calls \in Nat /\ q.calls \in Nat /\ r.calls \in Nat
      /\ \A a \in Addr : /\ p.vm.balance[a] \in Nat
                         /\ q.vm.balance[a] \in Nat /\ r.vm.balance[a] \in Nat
  BY PointFacts
<1>5. \A i \in Runs(s) : s[i].stamp \in Nat
  <2>1. \A i \in 1..Len(s) : s[i] \in Event
    OBVIOUS
  <2>2. QED  BY <1>2, <2>1 DEF Event
<1>6. \A i \in Runs(t) : t[i].stamp \in Nat
  <2>1. \A i \in 1..Len(t) : t[i] \in Event
    OBVIOUS
  <2>2. QED  BY <1>2, <2>1 DEF Event
<1>7. Reported(p, c, r)
  <2>1. Written(p.vm, r.vm) = Written(p.vm, q.vm) \cup Written(q.vm, r.vm)
    <3>1. /\ \A d \in Contract : p.vm.store[d] \subseteq q.vm.store[d]
          /\ \A d \in Contract : q.vm.store[d] \subseteq r.vm.store[d]
      BY <1>1 DEF Reported
    <3>2. QED  BY <3>1, WrittenMember
  <2>2. Written(p.vm, r.vm) = Stamps(c)
    BY <1>1, <1>2, <2>1 DEF Reported
  <2>3. p.calls <= r.calls /\ \A d \in Contract : p.vm.store[d] \subseteq r.vm.store[d]
    BY <1>1, <1>4 DEF Reported
  <2>4. ASSUME NEW i \in Runs(c)
        PROVE  p.calls < c[i].stamp /\ c[i].stamp <= r.calls
    BY <1>1, <1>2, <1>4, <1>5, <1>6 DEF Reported
  <2>5. ASSUME NEW i \in Runs(c), NEW j \in Runs(c), i < j
        PROVE  c[i].stamp < c[j].stamp
    <3>1. CASE i \in Runs(s) /\ c[i] = s[i] /\ j \in Runs(s) /\ c[j] = s[j]
      BY <1>1, <2>5, <3>1 DEF Reported
    <3>2. ASSUME i \in Runs(s), c[i] = s[i], NEW k \in Runs(t), c[j] = t[k]
          PROVE  c[i].stamp < c[j].stamp
      BY <1>1, <1>4, <1>5, <1>6, <3>2 DEF Reported
    <3>3. ASSUME NEW k \in Runs(t), i = k + Len(s), j \in Runs(s)
          PROVE  FALSE
      BY <1>2, <2>5, <3>3
    <3>4. ASSUME NEW k \in Runs(t), i = k + Len(s), c[i] = t[k],
                 NEW l \in Runs(t), j = l + Len(s), c[j] = t[l]
          PROVE  c[i].stamp < c[j].stamp
      <4>1. k < l
        BY <1>2, <2>5, <3>4
      <4>2. QED  BY <1>1, <3>4, <4>1 DEF Reported
    <3>5. QED  BY <1>2, <3>1, <3>2, <3>3, <3>4
  <2>6. QED  BY <2>2, <2>3, <2>4, <2>5 DEF Reported
<1>8. Accounted(p, c, r)
  <2>1. ASSUME NEW a \in Addr
        PROVE  r.vm.balance[a] + Spent(c, a) = p.vm.balance[a] + Received(c, a)
    <3>1. /\ q.vm.balance[a] + Spent(s, a) = p.vm.balance[a] + Received(s, a)
          /\ r.vm.balance[a] + Spent(t, a) = q.vm.balance[a] + Received(t, a)
      BY <1>1 DEF Accounted
    <3>2. /\ Received(c, a) = Received(s, a) + Received(t, a)
          /\ Spent(c, a) = Spent(s, a) + Spent(t, a)
          /\ Received(s, a) \in Nat /\ Spent(s, a) \in Nat
          /\ Received(t, a) \in Nat /\ Spent(t, a) \in Nat
      BY <1>3
    <3>3. p.vm.balance[a] \in Nat /\ q.vm.balance[a] \in Nat /\ r.vm.balance[a] \in Nat
      BY <1>4
    <3>4. PICK x \in Nat, y \in Nat, z \in Nat :
            x = p.vm.balance[a] /\ y = q.vm.balance[a] /\ z = r.vm.balance[a]
      BY <3>3
    <3>5. PICK k \in Nat, l \in Nat : k = Spent(s, a) /\ l = Spent(t, a)
      BY <3>2
    <3>6. PICK m \in Nat, n \in Nat : m = Received(s, a) /\ n = Received(t, a)
      BY <3>2
    <3>7. y + k = x + m /\ z + l = y + n
      BY <3>1, <3>4, <3>5, <3>6
    <3>8. z + (k + l) = x + (m + n)
      BY <3>7
    <3>9. QED  BY <3>2, <3>4, <3>5, <3>6, <3>8
  <2>2. /\ r.vm.contracts = p.vm.contracts \cup Created(c)
        /\ p.vm.contracts \cap Created(c) = {}
    BY <1>1, <1>2 DEF Accounted
  <2>3. QED  BY <2>1, <2>2 DEF Accounted
<1>9. Explained(p, c, r)
  BY <1>7, <1>8 DEF Explained
<1>10. QED  BY <1>9 DEF c

\* What one event explains.
ReportedOne(p, e, q) ==
    /\ p.calls <= q.calls
    /\ \A c \in Contract : p.vm.store[c] \subseteq q.vm.store[c]
    /\ Written(p.vm, q.vm) = IF e.stamp = 0 THEN {} ELSE {e.stamp}
    /\ e.stamp # 0 => p.calls < e.stamp /\ e.stamp <= q.calls

AccountedOne(p, e, q) ==
    /\ \A a \in Addr :
        q.vm.balance[a] + (IF e.from = a THEN Total(e.coins) ELSE 0) =
            p.vm.balance[a] + (IF e.to = a THEN Total(e.coins) ELSE 0)
    /\ q.vm.contracts =
         p.vm.contracts \cup (IF e.kind = "instantiate" THEN {e.to} ELSE {})
    /\ e.kind = "instantiate" => e.to \notin p.vm.contracts

LEMMA ExplainedOne ==
    ASSUME NEW p \in Point, NEW q \in Point, NEW e \in Event
    PROVE  Explained(p, <<e>>, q) <=> ReportedOne(p, e, q) /\ AccountedOne(p, e, q)
<1> DEFINE s == <<e>>
<1>1. s[1] = e
  OBVIOUS
<1>2. /\ Runs(s) = IF e.stamp = 0 THEN {} ELSE {1}
      /\ Stamps(s) = IF e.stamp = 0 THEN {} ELSE {e.stamp}
      /\ Created(s) = IF e.kind = "instantiate" THEN {e.to} ELSE {}
      /\ \A a : /\ Received(s, a) = IF e.to = a THEN Total(e.coins) ELSE 0
                /\ Spent(s, a) = IF e.from = a THEN Total(e.coins) ELSE 0
  BY OneEvent
<1> HIDE DEF s
<1>3. Reported(p, s, q) <=> ReportedOne(p, e, q)
  <2>1. \A i, j \in Runs(s) : ~(i < j)
    BY <1>2
  <2>2. \A i \in Runs(s) : i = 1 /\ e.stamp # 0
    BY <1>2
  <2>3. e.stamp # 0 => 1 \in Runs(s)
    BY <1>2
  <2>4. QED  BY <1>1, <1>2, <2>1, <2>2, <2>3 DEF Reported, ReportedOne
<1>4. Accounted(p, s, q) <=> AccountedOne(p, e, q)
  BY <1>2 DEF Accounted, AccountedOne
<1>5. Explained(p, s, q) <=> ReportedOne(p, e, q) /\ AccountedOne(p, e, q)
  BY <1>3, <1>4 DEF Explained
<1>6. QED  BY <1>5 DEF s

\* The event of the call c after the coins moved so far.
EventWith(c, coins, stamp) ==
    [kind |-> c.kind, from |-> c.from, to |-> c.to, coins |-> coins, stamp |-> stamp]

LEMMA EventWithFacts ==
    ASSUME NEW c \in Call, NEW coins \in Seq(Int), NEW stamp \in Nat
    PROVE  LET e == EventWith(c, coins, stamp)
           IN  /\ e \in Event
               /\ e.kind = c.kind /\ e.from = c.from /\ e.to = c.to
               /\ e.coins = coins /\ e.stamp = stamp
BY DEF EventWith, Event, Call

\* A call is entered, and an instantiate registers its contract.
LEMMA EnterExplained ==
    ASSUME NEW p \in Point, NEW q \in Point, NEW r \in Point, NEW c \in Call,
           Explained(p, <<>>, q), r.calls = q.calls,
           r.vm.store = q.vm.store, r.vm.balance = q.vm.balance,
           r.vm.contracts = q.vm.contracts \cup
                              (IF c.kind = "instantiate" THEN {c.to} ELSE {}),
           c.kind = "instantiate" => c.to \notin q.vm.contracts
    PROVE  Explained(p, <<EventWith(c, <<>>, 0)>>, r)
<1>0. <<>> \in Seq(Int) /\ 0 \in Nat
  OBVIOUS
<1>1. PICK e \in Event : e = EventWith(c, <<>>, 0)
  BY <1>0, EventWithFacts
<1>2. e.kind = c.kind /\ e.from = c.from /\ e.to = c.to /\ e.coins = <<>> /\ e.stamp = 0
  BY <1>1 DEF EventWith
<1>3. Reported(p, <<>>, q) /\ Accounted(p, <<>>, q)
  BY DEF Explained
<1>4. ReportedOne(p, e, r)
  <2>1. Written(p.vm, q.vm) = {}
    BY <1>3, NoEvents DEF Reported
  <2>2. Written(p.vm, r.vm) = {}
    BY <2>1 DEF Written
  <2>3. QED  BY <1>2, <1>3, <2>2 DEF Reported, ReportedOne
<1>5. AccountedOne(p, e, r)
  <2>1. \A a \in Addr : p.vm.balance[a] \in Nat /\ q.vm.balance[a] \in Nat
    BY PointFacts
  <2>2. \A a \in Addr : q.vm.balance[a] = p.vm.balance[a]
    BY <1>3, <2>1, NoEvents DEF Accounted
  <2>3. q.vm.contracts = p.vm.contracts
    BY <1>3, NoEvents DEF Accounted
  <2>4. QED  BY <1>2, <2>2, <2>3, TotalShort DEF AccountedOne
<1>6. Explained(p, <<e>>, r)
  BY <1>4, <1>5, ExplainedOne
<1>7. QED  BY <1>1, <1>6

\* One more coin moves.
LEMMA CoinExplained ==
    ASSUME NEW p \in Point, NEW q \in Point, NEW r \in Point, NEW c \in Call,
           NEW coins \in Seq(Int), NEW amt \in Nat,
           Explained(p, <<EventWith(c, coins, 0)>>, q), r.calls = q.calls,
           r.vm.store = q.vm.store, r.vm.contracts = q.vm.contracts,
           Payment(Addr, q.vm.balance, r.vm.balance, c.from, c.to, amt)
    PROVE  Explained(p, <<EventWith(c, coins \o <<amt>>, 0)>>, r)
<1> DEFINE more == coins \o <<amt>>
<1>1. more \in Seq(Int)
  OBVIOUS
<1>2. PICK m \in Nat : m = Total(coins) /\ Total(more) = m + amt
  <2>1. <<amt>> \in Seq(Int)
    OBVIOUS
  <2>2. Total(more) = Total(coins) + Total(<<amt>>) /\ Total(coins) \in Nat
    BY <2>1, TotalConcat
  <2>3. QED  BY <2>2, TotalShort
<1> HIDE DEF more
<1>3. PICK e \in Event : e = EventWith(c, coins, 0)
  BY EventWithFacts
<1>4. PICK f \in Event : f = EventWith(c, more, 0)
  BY <1>1, EventWithFacts
<1>5. /\ e.kind = c.kind /\ e.from = c.from /\ e.to = c.to /\ e.coins = coins /\ e.stamp = 0
      /\ f.kind = c.kind /\ f.from = c.from /\ f.to = c.to /\ f.coins = more /\ f.stamp = 0
  BY <1>1, <1>3, <1>4, EventWithFacts
<1>6. ReportedOne(p, e, q) /\ AccountedOne(p, e, q)
  BY <1>3, ExplainedOne
<1>7. ReportedOne(p, f, r)
  BY <1>5, <1>6 DEF ReportedOne, Written
<1>8. AccountedOne(p, f, r)
  <2>1. ASSUME NEW a \in Addr
        PROVE  r.vm.balance[a] + (IF c.from = a THEN m + amt ELSE 0) =
                   p.vm.balance[a] + (IF c.to = a THEN m + amt ELSE 0)
    <3>1. PICK x \in Nat, y \in Nat, z \in Nat :
            x = p.vm.balance[a] /\ y = q.vm.balance[a] /\ z = r.vm.balance[a]
      BY PointFacts
    <3>2. y + (IF c.from = a THEN m ELSE 0) = x + (IF c.to = a THEN m ELSE 0)
      BY <1>2, <1>5, <1>6, <3>1 DEF AccountedOne
    <3>3. z = y - (IF a = c.from THEN amt ELSE 0) + (IF a = c.to THEN amt ELSE 0)
      BY <3>1 DEF Payment
    <3>4. z + (IF c.from = a THEN m + amt ELSE 0) = x + (IF c.to = a THEN m + amt ELSE 0)
      BY <3>2, <3>3
    <3>5. QED  BY <3>1, <3>4
  <2>2. QED  BY <1>2, <1>5, <1>6, <2>1 DEF AccountedOne
<1>9. Explained(p, <<f>>, r)
  BY <1>7, <1>8, ExplainedOne
<1>10. QED  BY <1>4, <1>9 DEF more

LEMMA WriteStamp ==
    ASSUME NEW v \in VMState, NEW c \in Contract, NEW stamp \in Nat
    PROVE  Write(v, c, stamp).store[c] = v.store[c] \cup {stamp}
<1> DEFINE st == [v.store EXCEPT ![c] = @ \cup {stamp}]
<1>1. st[c] = v.store[c] \cup {stamp}
  BY DEF VMState
<1>2. Write(v, c, stamp) = [v EXCEPT !.store = st]
  BY DEF Write
<1> HIDE DEF st
<1>3. QED  BY <1>1, <1>2 DEF VMState

\* The entry point ran and wrote.
LEMMA RunExplained ==
    ASSUME NEW p \in Point, NEW q \in Point, NEW r \in Point, NEW c \in Call,
           c.to \in Contract, NEW coins \in Seq(Int),
           Explained(p, <<EventWith(c, coins, 0)>>, q),
           r.vm = Write(q.vm, c.to, q.calls + 1), r.calls = q.calls + 1
    PROVE  Explained(p, <<EventWith(c, coins, q.calls + 1)>>, r)
<1>1. PICK stamp \in Nat : stamp = q.calls + 1
  BY PointFacts
<1>2. PICK e \in Event : e = EventWith(c, coins, 0)
  BY EventWithFacts
<1>3. PICK f \in Event : f = EventWith(c, coins, stamp)
  BY EventWithFacts
<1>4. /\ e.kind = c.kind /\ e.from = c.from /\ e.to = c.to /\ e.coins = coins /\ e.stamp = 0
      /\ f.kind = c.kind /\ f.from = c.from /\ f.to = c.to /\ f.coins = coins
      /\ f.stamp = stamp
  BY <1>2, <1>3, EventWithFacts
<1>5. ReportedOne(p, e, q) /\ AccountedOne(p, e, q)
  BY <1>2, ExplainedOne
<1>6. /\ r.vm.contracts = q.vm.contracts /\ r.vm.balance = q.vm.balance
      /\ \A d \in Contract : d # c.to => r.vm.store[d] = q.vm.store[d]
      /\ r.vm.store[c.to] = q.vm.store[c.to] \cup {stamp}
  <2>1. PICK v \in VMState : v = q.vm
    BY PointFacts
  <2>2. PICK d \in Contract : d = c.to
    OBVIOUS
  <2>3. r.vm = Write(v, d, stamp)
    BY <1>1, <2>1, <2>2
  <2>4. Write(v, d, stamp).store[d] = v.store[d] \cup {stamp}
    BY WriteStamp
  <2>5. /\ Write(v, d, stamp).contracts = v.contracts
        /\ Write(v, d, stamp).balance = v.balance
        /\ \A i \in Contract : i # d => Write(v, d, stamp).store[i] = v.store[i]
    BY WriteFacts
  <2>6. QED  BY <2>1, <2>2, <2>3, <2>4, <2>5
<1>7. stamp \notin q.vm.store[c.to] /\ q.calls \in Nat /\ p.calls \in Nat
  BY <1>1, PointFacts DEF Stamped
<1>8. \A d \in Contract : q.vm.store[d] = p.vm.store[d]
  <2>1. Written(p.vm, q.vm) = {} /\ \A d \in Contract : p.vm.store[d] \subseteq q.vm.store[d]
    BY <1>4, <1>5 DEF ReportedOne
  <2>2. ASSUME NEW d \in Contract, NEW x \in q.vm.store[d]
        PROVE  x \in p.vm.store[d]
    <3>1. x \notin Written(p.vm, q.vm)
      BY <2>1
    <3>2. QED  BY <3>1, WrittenMember
  <2>3. QED  BY <2>1, <2>2
<1>9. ReportedOne(p, f, r)
  <2>1. Written(p.vm, r.vm) = {stamp}
    <3>1. stamp \in Written(p.vm, r.vm)
      BY <1>6, <1>7, <1>8, WrittenMember
    <3>2. ASSUME NEW x \in Written(p.vm, r.vm)
          PROVE  x = stamp
      <4>1. PICK d \in Contract : x \in r.vm.store[d] /\ x \notin p.vm.store[d]
        BY WrittenMember
      <4>2. QED  BY <1>6, <1>8, <4>1
    <3>3. QED  BY <3>1, <3>2
  <2>2. \A d \in Contract : p.vm.store[d] \subseteq r.vm.store[d]
    BY <1>6, <1>8
  <2>3. p.calls < stamp /\ stamp <= r.calls /\ p.calls <= r.calls /\ stamp # 0
    BY <1>1, <1>5, <1>7 DEF ReportedOne
  <2>4. QED  BY <1>4, <2>1, <2>2, <2>3 DEF ReportedOne
<1>10. AccountedOne(p, f, r)
  BY <1>4, <1>5, <1>6 DEF AccountedOne
<1>11. Explained(p, <<f>>, r)
  BY <1>9, <1>10, ExplainedOne
<1>12. QED  BY <1>1, <1>3, <1>11

-----------------------------------------------------------------------------
(***************************************************************************)
(* The invariant of the event log.  There is a point for the start of the  *)
(* transaction and one for every activation: the moment it began to wait.  *)
(* The events an activation collected explain its point from the one       *)
(* before, its snapshot is its point, and what the call in flight did so   *)
(* far, or the result on its way up, explains the present from the         *)
(* innermost point.                                                        *)
(***************************************************************************)
Now == [vm |-> vm, calls |-> calls]

Link(p, f, q) ==
    /\ Explained(p, f.events \o f.sub, q)
    /\ f.snap # NoSnap => f.awaiting = "sub" /\ f.snap = q.vm
    /\ f.awaiting # "reply" => f.sub = <<>>

Chain(b, s, snap, n) ==
    /\ b[0].vm = snap
    /\ \A i \in 0..Len(s) : b[i].calls <= n
    /\ \A i \in 1..Len(s) : Link(b[i-1], s[i], b[i])

InFlight(p, at, c, r, q) ==
    /\ at \in {"call", "loop"} => Explained(p, <<>>, q)
    /\ at = "call" => c.due = c.coins /\ (c.kind = "reply" => c.coins = <<>>)
    /\ at = "pay" => \E coins \in Seq(Int) :
                        /\ c.coins = coins \o c.due
                        /\ Explained(p, <<EventWith(c, coins, 0)>>, q)
    /\ at = "run" => Explained(p, <<EventWith(c, c.coins, 0)>>, q)
    /\ at = "ret" /\ r.err = "none" => Explained(p, r.events, q)

LogInv ==
    /\ Now \in Point
    /\ pc # "idle" =>
        \E b \in [Nat -> Point] :
            /\ Chain(b, stack, tx.snap, calls)
            /\ InFlight(b[Len(stack)], pc, call, ret, Now)

LEMMA ChainLater ==
    ASSUME NEW b \in [Nat -> Point], NEW s \in Seq(Frame), NEW snap,
           NEW m \in Nat, NEW n \in Nat, m <= n, Chain(b, s, snap, m)
    PROVE  Chain(b, s, snap, n)
<1>1. \A i \in 0..Len(s) : b[i].calls \in Nat
  BY PointFacts
<1>2. QED  BY <1>1 DEF Chain

\* t is s with one more activation, or with another innermost one.
Pushed(s, t) ==
    /\ s \in Seq(Frame) /\ t \in Seq(Frame)
    /\ Len(t) = Len(s) + 1
    /\ \A i \in 1..Len(s) : t[i] = s[i]
Retopped(s, t) ==
    /\ s \in Seq(Frame) /\ t \in Seq(Frame)
    /\ Len(t) = Len(s) /\ Len(s) > 0
    /\ \A i \in 1..Len(s) : i # Len(s) => t[i] = s[i]

LEMMA ChainPush ==
    ASSUME NEW b \in [Nat -> Point], NEW s, NEW t, NEW snap, NEW n \in Nat,
           Pushed(s, t), NEW q \in Point, q.calls <= n,
           Chain(b, s, snap, n), Link(b[Len(s)], t[Len(t)], q)
    PROVE  \E d \in [Nat -> Point] : Chain(d, t, snap, n) /\ d[Len(t)] = q
<1> USE DEF Pushed
<1> DEFINE d == [b EXCEPT ![Len(t)] = q]
<1>1. Len(s) \in Nat /\ Len(t) \in Nat
  OBVIOUS
<1>2. /\ d \in [Nat -> Point] /\ d[Len(t)] = q
      /\ \A i \in 0..Len(s) : d[i] = b[i]
  BY <1>1
<1> HIDE DEF d
<1>3. d[0].vm = snap
  BY <1>1, <1>2 DEF Chain
<1>4. ASSUME NEW i \in 0..Len(t)
      PROVE  d[i].calls <= n
  <2>1. i \in 0..Len(s) \/ i = Len(t)
    BY <1>1
  <2>2. QED  BY <1>2, <2>1 DEF Chain
<1>5. ASSUME NEW i \in 1..Len(t)
      PROVE  Link(d[i-1], t[i], d[i])
  <2>1. CASE i \in 1..Len(s)
    <3>1. i \in 0..Len(s) /\ i - 1 \in 0..Len(s)
      BY <1>1, <2>1
    <3>2. d[i-1] = b[i-1] /\ d[i] = b[i] /\ t[i] = s[i]
      BY <1>2, <2>1, <3>1
    <3>3. Link(b[i-1], s[i], b[i])
      BY <2>1 DEF Chain
    <3>4. QED  BY <3>2, <3>3
  <2>2. CASE i = Len(t)
    <3>1. i - 1 = Len(s) /\ Len(s) \in 0..Len(s)
      BY <1>1, <2>2
    <3>2. QED  BY <1>2, <2>2, <3>1
  <2>3. QED  BY <1>1, <2>1, <2>2
<1>6. Chain(d, t, snap, n)
  BY <1>3, <1>4, <1>5 DEF Chain
<1>7. QED  BY <1>2, <1>6

LEMMA ChainTop ==
    ASSUME NEW b \in [Nat -> Point], NEW s, NEW t, NEW snap, NEW n \in Nat,
           Retopped(s, t), NEW q \in Point, q.calls <= n,
           Chain(b, s, snap, n), Link(b[Len(s) - 1], t[Len(s)], q)
    PROVE  \E d \in [Nat -> Point] : Chain(d, t, snap, n) /\ d[Len(t)] = q
<1> USE DEF Retopped
<1> DEFINE d == [b EXCEPT ![Len(s)] = q]
<1>1. Len(s) \in Nat /\ Len(t) \in Nat
  OBVIOUS
<1>2. /\ d \in [Nat -> Point] /\ d[Len(s)] = q
      /\ \A i \in 0..Len(s) : i # Len(s) => d[i] = b[i]
  BY <1>1
<1> HIDE DEF d
<1>3. d[0].vm = snap
  BY <1>1, <1>2 DEF Chain
<1>4. ASSUME NEW i \in 0..Len(t)
      PROVE  d[i].calls <= n
  BY <1>2 DEF Chain
<1>5. ASSUME NEW i \in 1..Len(t)
      PROVE  Link(d[i-1], t[i], d[i])
  <2>1. i \in 0..Len(s) /\ i - 1 \in 0..Len(s) /\ i - 1 # Len(s)
    BY <1>1
  <2>2. CASE i # Len(s)
    <3>1. d[i-1] = b[i-1] /\ d[i] = b[i] /\ t[i] = s[i]
      BY <1>2, <2>1, <2>2
    <3>2. Link(b[i-1], s[i], b[i])
      BY DEF Chain
    <3>3. QED  BY <3>1, <3>2
  <2>3. CASE i = Len(s)
    BY <1>2, <2>1, <2>3
  <2>4. QED  BY <2>2, <2>3
<1>6. Chain(d, t, snap, n)
  BY <1>3, <1>4, <1>5 DEF Chain
<1>7. QED  BY <1>2, <1>6

LEMMA ChainPop ==
    ASSUME NEW b \in [Nat -> Point], NEW s \in Seq(Frame), NEW snap, NEW n \in Nat,
           NEW t \in Seq(Frame), Len(t) = Len(s) - 1,
           \A i \in 1..Len(t) : t[i] = s[i], Chain(b, s, snap, n)
    PROVE  Chain(b, t, snap, n)
<1>1. Len(s) \in Nat /\ Len(t) \in Nat
  OBVIOUS
<1>2. \A i \in 0..Len(t) : i \in 0..Len(s)
  BY <1>1
<1>3. \A i \in 1..Len(t) : i \in 1..Len(s)
  BY <1>1
<1>4. QED  BY <1>2, <1>3 DEF Chain

LEMMA InitLog == Init => LogInv
<1> SUFFICES ASSUME Init PROVE LogInv
  OBVIOUS
<1>1. vm \in VMState /\ calls = 0 /\ pc = "idle" /\ vm = Genesis
  BY InitTInv, CallFacts DEF Init
<1>2. Stamped(vm, calls)
  BY <1>1 DEF Stamped, Genesis
<1>3. Now \in Point
  BY <1>1, <1>2 DEF Now, Point
<1>4. QED  BY <1>1, <1>3 DEF LogInv

\* The points in reach: the start, and that of the innermost activation.
LEMMA ChainFacts ==
    ASSUME TInv, NEW b \in [Nat -> Point], Chain(b, stack, tx.snap, calls)
    PROVE  /\ b[Len(stack)] \in Point /\ b[Len(stack)].calls <= calls
           /\ Len(stack) \in Nat
           /\ Stamped(tx.snap, calls)
           /\ stack # <<>> =>
                /\ b[Len(stack) - 1] \in Point
                /\ Link(b[Len(stack) - 1], Top, b[Len(stack)])
<1>1. /\ stack \in Seq(Frame) /\ Len(stack) \in Nat /\ calls \in Nat
      /\ 0 \in 0..Len(stack) /\ Len(stack) \in 0..Len(stack)
      /\ stack # <<>> => Len(stack) \in 1..Len(stack) /\ Len(stack) - 1 \in Nat
  BY CallFacts
<1>2. Stamped(tx.snap, calls)
  <2>1. b[0] \in Point /\ b[0].vm = tx.snap /\ b[0].calls <= calls
    BY <1>1 DEF Chain
  <2>2. Stamped(tx.snap, b[0].calls) /\ b[0].calls \in Nat
    BY <2>1, PointFacts
  <2>3. 0..b[0].calls \subseteq 0..calls
    BY <1>1, <2>1, <2>2
  <2>4. QED  BY <2>2, <2>3 DEF Stamped
<1>3. QED  BY <1>1, <1>2 DEF Chain, Top

LEMMA NowFacts ==
    ASSUME TInv, LogInv
    PROVE  Now \in Point /\ Now.vm = vm /\ Now.calls = calls /\ Stamped(vm, calls)
BY DEF LogInv, Now, Point

\* The next state is a point again.
LEMMA NextPoint ==
    ASSUME TInv, LogInv, [Next]_vars
    PROVE  /\ (Now \in Point)'
           /\ Now'.vm = vm' /\ Now'.calls = calls'
           /\ calls <= calls' /\ calls' \in Nat
<1>1. TInv'
  BY NextTInv
<1>2. vm' \in VMState /\ calls' \in Nat
  BY <1>1 DEF TInv, TypeOK
<1>3. Stamped(vm, calls) /\ calls \in Nat /\ vm \in VMState
  BY NowFacts, CallFacts
<1>4. ASSUME vm'.store = vm.store, calls' = calls
      PROVE  Stamped(vm', calls') /\ calls <= calls'
  BY <1>3, <1>4 DEF Stamped
<1>5. ASSUME pc = "run", vm' = Write(vm, call.to, calls + 1), calls' = calls + 1
      PROVE  Stamped(vm', calls') /\ calls <= calls'
  <2>1. PICK n \in Nat : n = calls + 1
    BY <1>3
  <2>2. PICK d \in Contract : d = call.to
    BY <1>5, CallFacts
  <2>3. vm' = Write(vm, d, n)
    BY <1>5, <2>1, <2>2
  <2>4. /\ Write(vm, d, n).store[d] = vm.store[d] \cup {n}
        /\ \A c \in Contract : c # d => Write(vm, d, n).store[c] = vm.store[c]
    BY <1>3, WriteStamp, WriteFacts
  <2>5. 0..calls \subseteq 0..n /\ n \in 0..n
    BY <1>3, <2>1
  <2>6. ASSUME NEW c \in Contract
        PROVE  vm'.store[c] \subseteq 0..n
    <3>1. vm.store[c] \subseteq 0..n
      BY <1>3, <2>5 DEF Stamped
    <3>2. QED  BY <2>3, <2>4, <2>5, <3>1
  <2>7. QED  BY <1>3, <1>5, <2>1, <2>6 DEF Stamped
<1>6. Stamped(vm', calls') /\ calls <= calls'
  <2>1. CASE UNCHANGED vars
    BY <1>4, <2>1 DEF vars
  <2>2. CASE BeginStep
    BY <1>4, <2>2 DEF BeginStep
  <2>3. CASE ProceedStep
    BY <1>4, <2>3, ProceedVM DEF ProceedStep
  <2>4. CASE ReturnStep
    <3>1. CASE vm' = vm /\ calls' = calls
      BY <1>4, <3>1
    <3>2. CASE /\ pc = "pay" /\ call.kind = "instantiate"
               /\ vm' = Unregister(vm, call.to) /\ calls' = calls
      <4>1. call.to \in Contract /\ call.to = vm.instanceCount
        BY <3>2 DEF TInv, Control, CallControl
      <4>2. vm'.store = vm.store
        BY <1>3, <3>2, <4>1, UnregisterFacts
      <4>3. QED  BY <1>4, <3>2, <4>2
    <3>3. QED  BY <1>5, <2>4, <3>1, <3>2 DEF ReturnStep
  <2>5. CASE PushStep
    BY <1>5, <2>5 DEF PushStep
  <2>6. CASE DispatchStep
    BY <1>4, <2>6 DEF DispatchStep
  <2>7. CASE PopStep
    BY <1>4, <2>7 DEF PopStep
  <2>8. CASE ReplyStep
    <3>1. CASE vm' = vm
      BY <1>4, <2>8, <3>1 DEF ReplyStep
    <3>2. CASE CanCatchError(Top.replyOn) /\ vm' = Top.snap
      <4>1. stack # <<>> /\ pc = "ret" /\ Top.awaiting = "sub" /\ calls' = calls
        BY <2>8 DEF ReplyStep
      <4>2. PICK b \in [Nat -> Point] : Chain(b, stack, tx.snap, calls)
        BY <4>1 DEF LogInv
      <4>3. PICK p \in Point : Link(b[Len(stack) - 1], Top, p) /\ p.calls <= calls
        BY <4>1, <4>2, ChainFacts
      <4>4. Top.snap # NoSnap
        BY <3>2, <4>1, InnermostFacts, NoSnapAssumption
      <4>5. vm' = p.vm
        BY <3>2, <4>3, <4>4 DEF Link
      <4>6. Stamped(vm', p.calls) /\ p.calls \in Nat
        BY <4>5, PointFacts
      <4>7. 0..p.calls \subseteq 0..calls
        BY <1>3, <4>3, <4>6
      <4>8. QED  BY <1>3, <4>1, <4>6, <4>7 DEF Stamped
    <3>3. QED  BY <2>8, <3>1, <3>2 DEF ReplyStep
  <2>9. CASE ResumeStep
    BY <1>4, <2>9 DEF ResumeStep
  <2>10. CASE EndStep
    <3>1. CASE vm'.store = vm.store
      BY <1>4, <2>10, <3>1 DEF EndStep
    <3>2. CASE vm' = tx.snap
      <4>1. pc = "ret" /\ calls' = calls
        BY <2>10 DEF EndStep
      <4>2. PICK b \in [Nat -> Point] : Chain(b, stack, tx.snap, calls)
        BY <4>1 DEF LogInv
      <4>3. QED  BY <1>3, <3>2, <4>1, <4>2, ChainFacts
    <3>3. QED  BY <2>10, <3>1, <3>2 DEF EndStep
  <2>11. QED
    BY <2>1, <2>2, <2>3, <2>4, <2>5, <2>6, <2>7, <2>8, <2>9, <2>10, StepKinds
<1>7. QED  BY <1>2, <1>6 DEF Now, Point

LEMMA EmptyConcat ==
    ASSUME NEW S, NEW s \in Seq(S)
    PROVE  s \o <<>> = s /\ <<>> \o s = s
OBVIOUS

LEMMA ConcatInThree ==
    ASSUME NEW S, NEW s \in Seq(S), NEW t \in Seq(S), NEW u \in Seq(S)
    PROVE  (s \o t) \o u = s \o (t \o u)
OBVIOUS

LEMMA HeadThenTail ==
    ASSUME NEW t \in Seq(Int), t # <<>>
    PROVE  t = <<Head(t)>> \o Tail(t)
OBVIOUS

\* The coin at the head of what is due is the next one paid.
LEMMA MoveHead ==
    ASSUME NEW s \in Seq(Int), NEW t \in Seq(Int), t # <<>>
    PROVE  (s \o <<Head(t)>>) \o Tail(t) = s \o t
<1>1. <<Head(t)>> \in Seq(Int) /\ Tail(t) \in Seq(Int)
  OBVIOUS
<1>2. QED  BY <1>1, ConcatInThree, HeadThenTail

LEMMA ExplainedLater ==
    ASSUME NEW p \in Point, NEW q \in Point, NEW r \in Point, NEW s \in Seq(Event),
           Explained(p, s, q), Explained(q, <<>>, r)
    PROVE  Explained(p, s, r)
<1>1. <<>> \in Seq(Event)
  OBVIOUS
<1>2. Explained(p, s \o <<>>, r)
  BY <1>1, ExplainedTogether
<1>3. QED  BY <1>2, EmptyConcat

\* The event of the call in flight.
LEMMA EventInFlight ==
    ASSUME TInv, NEW stamp \in Nat
    PROVE  /\ EventOf(stamp) = EventWith(call, call.coins, stamp)
           /\ <<EventOf(stamp)>> \in Seq(Event)
           /\ call \in Call /\ call.coins \in Seq(Int) /\ call.due \in Seq(Int)
<1>1. call \in Call
  BY CallFacts
<1>2. call.coins \in Seq(Int) /\ call.due \in Seq(Int)
  BY <1>1 DEF Call
<1>3. QED  BY <1>1, <1>2, EventOfType DEF EventOf, EventWith

LEMMA BeginLog ==
    ASSUME TInv, LogInv, Next, BeginStep
    PROVE  LogInv'
<1> DEFINE b == [i \in Nat |-> Now]
<1>1. /\ vm' = vm /\ calls' = calls /\ stack' = stack /\ stack = <<>>
      /\ tx'.snap = vm /\ calls \in Nat
  BY CallFacts DEF BeginStep
<1>2. Now' = Now /\ Now \in Point /\ Now.vm = vm /\ Now.calls = calls /\ (Now \in Point)'
  BY <1>1, NowFacts DEF Now
<1>3. b \in [Nat -> Point] /\ \A i \in Nat : b[i] = Now
  BY <1>2
<1> HIDE DEF b
<1>4. Chain(b, stack', tx'.snap, calls')
  BY <1>1, <1>2, <1>3 DEF Chain
<1>5. Explained(Now, <<>>, Now)
  BY <1>1, <1>2, NothingExplained
<1>6. Len(stack') = 0 /\ b[Len(stack')] = Now
  BY <1>1, <1>3
<1>7. InFlight(Now, pc', call', ret', Now)
  BY <1>5 DEF InFlight, BeginStep
<1>8. QED  BY <1>2, <1>3, <1>4, <1>6, <1>7 DEF LogInv

LEMMA ProceedLog ==
    ASSUME TInv, InstanceInv, LogInv, Next, ProceedStep
    PROVE  LogInv'
<1>1. PICK b \in [Nat -> Point] :
        /\ Chain(b, stack, tx.snap, calls)
        /\ InFlight(b[Len(stack)], pc, call, ret, Now)
  BY DEF LogInv, ProceedStep
<1>2. PICK p \in Point : p = b[Len(stack)]
  BY <1>1, ChainFacts
<1>3. /\ stack' = stack /\ tx' = tx /\ calls' = calls /\ call' \in Call
      /\ call'.kind = call.kind /\ call'.from = call.from /\ call'.to = call.to
      /\ call'.coins = call.coins
  BY DEF ProceedStep
<1>4. PICK q \in Point : q = Now /\ q.vm = vm /\ q.calls = calls
  BY NowFacts
<1>5. (Now \in Point)' /\ Now'.vm = vm' /\ Now'.calls = calls'
  BY NextPoint
<1>6. PICK r \in Point : r = Now' /\ r.vm = vm' /\ r.calls = calls'
  BY <1>5
<1>7. /\ call \in Call /\ call.coins \in Seq(Int) /\ call.due \in Seq(Int)
      /\ call.from \in Addr /\ call.to \in Addr /\ vm \in VMState
  BY EventInFlight, CallFacts
<1>8. vm'.store = vm.store
  BY ProceedVM
<1>9. \A coins : EventWith(call', coins, 0) = EventWith(call, coins, 0)
  BY <1>3 DEF EventWith
<1>10. CASE pc = "call"
  <2>1. Explained(p, <<>>, q) /\ call.due = call.coins
    BY <1>1, <1>2, <1>4, <1>10 DEF InFlight
  <2>2. /\ call'.due = call.due
        /\ pc' = IF call.kind = "reply" THEN "run" ELSE "pay"
        /\ vm' = IF call.kind = "instantiate" THEN Register(vm, call.to) ELSE vm
    BY <1>10 DEF ProceedStep
  <2>3. /\ vm'.balance = vm.balance
        /\ vm'.contracts = vm.contracts \cup
                             (IF call.kind = "instantiate" THEN {call.to} ELSE {})
        /\ call.kind = "instantiate" => call.to \notin vm.contracts
    <3>1. CASE call.kind = "instantiate"
      <4>1. call.to \in Contract /\ call.to = vm.instanceCount + 1
        BY <1>10, <3>1 DEF TInv, Control, CallControl
      <4>2. vm'.balance = vm.balance /\ vm'.contracts = vm.contracts \cup {call.to}
        BY <1>7, <2>2, <3>1, <4>1, RegisterFacts
      <4>3. call.to \notin vm.contracts
        <5>1. vm.contracts \subseteq 1..vm.instanceCount /\ vm.instanceCount \in Nat
          BY CallFacts DEF InstanceInv, Fresh
        <5>2. QED  BY <4>1, <5>1
      <4>4. QED  BY <3>1, <4>2, <4>3
    <3>2. CASE call.kind # "instantiate"
      BY <2>2, <3>2
    <3>3. QED  BY <3>1, <3>2
  <2>4. Explained(p, <<EventWith(call, <<>>, 0)>>, r)
    BY <1>3, <1>4, <1>6, <1>7, <1>8, <2>1, <2>3, EnterExplained
  <2>5. <<>> \in Seq(Int) /\ call'.coins = <<>> \o call'.due
    BY <1>3, <1>7, <2>1, <2>2, EmptyConcat
  <2>6. call.kind = "reply" => call'.coins = <<>>
    BY <1>1, <1>3, <1>10 DEF InFlight
  <2>7. InFlight(p, pc', call', ret', r)
    BY <1>9, <2>2, <2>4, <2>5, <2>6 DEF InFlight
  <2>8. QED  BY <1>1, <1>2, <1>3, <1>5, <1>6, <2>7 DEF LogInv
<1>11. CASE pc = "pay"
  <2>1. PICK coins \in Seq(Int) : /\ call.coins = coins \o call.due
                                  /\ Explained(p, <<EventWith(call, coins, 0)>>, q)
    BY <1>1, <1>2, <1>4, <1>11 DEF InFlight
  <2>2. CASE pc' = "pay" /\ CoinStep
    <3>1. PICK amt \in Nat : amt = Head(call.due)
      BY <2>2 DEF CoinStep
    <3>2. /\ call.due # <<>> /\ call'.due = Tail(call.due)
          /\ Affordable(vm, call.from, amt)
          /\ vm' = IF amt = 0 THEN vm ELSE Transfer(vm, call.from, call.to, amt)
      BY <2>2, <3>1 DEF CoinStep
    <3>3. Payment(Addr, vm.balance, vm'.balance, call.from, call.to, amt)
      <4>1. CASE amt = 0
        <5>1. vm.balance \in [Addr -> Nat]
          BY <1>7 DEF VMState
        <5>2. QED  BY <1>7, <3>2, <4>1, <5>1 DEF Payment
      <4>2. CASE amt # 0
        BY <1>7, <3>2, <4>2, TransferBalance
      <4>3. QED  BY <4>1, <4>2
    <3>4. vm'.contracts = vm.contracts
      <4>1. CASE amt = 0
        BY <3>2, <4>1
      <4>2. CASE amt # 0
        BY <1>7, <3>2, <4>2, TransferFacts
      <4>3. QED  BY <4>1, <4>2
    <3>5. Explained(p, <<EventWith(call, coins \o <<amt>>, 0)>>, r)
      BY <1>3, <1>4, <1>6, <1>7, <1>8, <2>1, <3>3, <3>4, CoinExplained
    <3>6. PICK more \in Seq(Int) : more = coins \o <<amt>>
      <4>1. <<amt>> \in Seq(Int)
        OBVIOUS
      <4>2. coins \o <<amt>> \in Seq(Int)
        BY <4>1
      <4>3. QED  BY <4>2
    <3>7. call'.coins = more \o call'.due
      BY <1>3, <1>7, <2>1, <3>1, <3>2, <3>6, MoveHead
    <3>8. Explained(p, <<EventWith(call', more, 0)>>, r)
      BY <1>9, <3>5, <3>6
    <3>9. InFlight(p, pc', call', ret', r)
      BY <2>2, <3>7, <3>8 DEF InFlight
    <3>10. QED  BY <1>1, <1>2, <1>3, <1>5, <1>6, <3>9 DEF LogInv
  <2>3. CASE pc' = "run" /\ vm' = vm /\ call.due = <<>>
    <3>1. coins = call.coins
      BY <2>1, <2>3, EmptyConcat
    <3>2. r = q
      BY <1>3, <1>4, <1>6, <2>3 DEF Now
    <3>3. Explained(p, <<EventWith(call', call'.coins, 0)>>, r)
      BY <1>3, <1>9, <2>1, <3>1, <3>2
    <3>4. InFlight(p, pc', call', ret', r)
      BY <2>3, <3>3 DEF InFlight
    <3>5. QED  BY <1>1, <1>2, <1>3, <1>5, <1>6, <3>4 DEF LogInv
  <2>4. QED  BY <1>11, <2>2, <2>3 DEF ProceedStep
<1>12. QED  BY <1>10, <1>11 DEF ProceedStep

\* An announcement reports no run and no payment.
LEMMA AnnouncementExplained ==
    ASSUME call \in Call, NEW p \in Point
    PROVE  Explained(p, Announcement, p)
<1> DEFINE e == [kind |-> "announced", from |-> call.to, to |-> call.to,
                 coins |-> <<>>, stamp |-> 0]
<1>1. Explained(p, <<>>, p)
  BY PointFacts, NothingExplained
<1>2. /\ e \in Event /\ e.kind # "instantiate" /\ e.stamp = 0 /\ e.coins = <<>>
  <2>1. <<>> \in Seq(Int) /\ 0 \in Nat /\ call.to \in Addr
    BY DEF Call
  <2>2. QED  BY <2>1 DEF Event
<1>3. Announcement = <<e>> \/ Announcement = <<>>
  BY DEF Announcement
<1> HIDE DEF e
<1>4. ReportedOne(p, e, p)
  <2>1. Written(p.vm, p.vm) = {}
    BY WrittenMember
  <2>2. QED  BY <1>2, <2>1, PointFacts DEF ReportedOne
<1>5. AccountedOne(p, e, p)
  <2>1. Total(e.coins) = 0
    BY <1>2, TotalShort
  <2>2. QED  BY <1>2, <2>1 DEF AccountedOne
<1>6. Explained(p, <<e>>, p)
  BY <1>2, <1>4, <1>5, ExplainedOne
<1>7. QED  BY <1>1, <1>3, <1>6

\* What the entry point that just ran leaves behind is explained.
LEMMA RunLog ==
    ASSUME TInv, LogInv, Next, pc = "run", NEW p \in Point,
           InFlight(p, pc, call, ret, Now),
           vm' = Write(vm, call.to, calls + 1), calls' = calls + 1
    PROVE  Explained(p, RunEvents(calls + 1), Now')
<1>1. PICK q \in Point : q = Now /\ q.vm = vm /\ q.calls = calls
  BY NowFacts
<1>2. (Now \in Point)' /\ Now'.vm = vm' /\ Now'.calls = calls'
  BY NextPoint
<1>3. PICK r \in Point : r = Now' /\ r.vm = vm' /\ r.calls = calls'
  BY <1>2
<1>4. calls + 1 \in Nat /\ call.to \in Contract
  BY CallFacts
<1>5. /\ EventOf(calls + 1) = EventWith(call, call.coins, calls + 1)
      /\ call \in Call /\ call.coins \in Seq(Int)
  BY <1>4, EventInFlight
<1>6. Explained(p, <<EventWith(call, call.coins, 0)>>, q)
  BY <1>1 DEF InFlight
<1>7. Explained(p, <<EventWith(call, call.coins, q.calls + 1)>>, r)
  BY <1>1, <1>3, <1>4, <1>5, <1>6, RunExplained
<1>8. Explained(p, <<EventOf(calls + 1)>>, r)
  BY <1>1, <1>5, <1>7
<1>9. Explained(p, Announcement, p)
  BY <1>5, AnnouncementExplained
<1>10. Announcement \in Seq(Event) /\ <<EventOf(calls + 1)>> \in Seq(Event)
  BY <1>4, <1>5, RunEventsType
<1>11. Explained(p, Announcement \o <<EventOf(calls + 1)>>, r)
  BY <1>8, <1>9, <1>10, ExplainedTogether
<1>12. QED  BY <1>3, <1>11 DEF RunEvents

LEMMA ReturnLog ==
    ASSUME TInv, LogInv, Next, ReturnStep
    PROVE  LogInv'
<1>1. PICK b \in [Nat -> Point] :
        /\ Chain(b, stack, tx.snap, calls)
        /\ InFlight(b[Len(stack)], pc, call, ret, Now)
  BY DEF LogInv, ReturnStep
<1>2. PICK p \in Point : p = b[Len(stack)]
  BY <1>1, ChainFacts
<1>3. stack' = stack /\ tx' = tx /\ pc' = "ret"
  BY DEF ReturnStep
<1>4. /\ (Now \in Point)' /\ calls <= calls' /\ calls' \in Nat
      /\ calls \in Nat /\ stack \in Seq(Frame)
  BY NextPoint, CallFacts
<1>5. Chain(b, stack', tx'.snap, calls')
  BY <1>1, <1>3, <1>4, ChainLater
<1>6. ret'.err = "none" => Explained(p, ret'.events, Now')
  <2>1. CASE /\ pc = "pay" /\ call.due = <<>> /\ vm' = vm /\ calls' = calls
             /\ ret'.events = <<EventOf(0)>>
    <3>1. PICK coins \in Seq(Int) : /\ call.coins = coins \o call.due
                                    /\ Explained(p, <<EventWith(call, coins, 0)>>, Now)
      BY <1>1, <1>2, <2>1 DEF InFlight
    <3>2. coins = call.coins
      BY <2>1, <3>1, EmptyConcat
    <3>3. EventOf(0) = EventWith(call, call.coins, 0)
      BY EventInFlight
    <3>4. Now' = Now
      BY <2>1 DEF Now
    <3>5. QED  BY <2>1, <3>1, <3>2, <3>3, <3>4
  <2>2. CASE /\ pc = "run" /\ vm' = Write(vm, call.to, calls + 1) /\ calls' = calls + 1
             /\ ret'.events = RunEvents(calls + 1)
    BY <1>1, <1>2, <2>2, RunLog
  <2>3. QED  BY <2>1, <2>2 DEF ReturnStep
<1>7. InFlight(p, pc', call', ret', Now')
  BY <1>3, <1>6 DEF InFlight
<1>8. QED  BY <1>2, <1>3, <1>4, <1>5, <1>7 DEF LogInv

LEMMA PushLog ==
    ASSUME TInv, LogInv, Next, PushStep
    PROVE  LogInv'
<1>1. PICK b \in [Nat -> Point] :
        /\ Chain(b, stack, tx.snap, calls)
        /\ InFlight(b[Len(stack)], pc, call, ret, Now)
  BY DEF LogInv, PushStep
<1>2. PICK p \in Point : p = b[Len(stack)]
  BY <1>1, ChainFacts
<1>3. /\ tx' = tx /\ pc = "run" /\ pc' = "loop"
      /\ vm' = Write(vm, call.to, calls + 1) /\ calls' = calls + 1
  BY DEF PushStep
<1>4. /\ (Now \in Point)' /\ Now'.calls = calls' /\ calls <= calls' /\ calls' \in Nat
      /\ calls \in Nat /\ stack \in Seq(Frame) /\ calls + 1 \in Nat
  BY NextPoint, CallFacts
<1>5. PICK r \in Point : r = Now' /\ r.calls = calls'
  BY <1>4
<1>6. PICK f \in Frame : /\ stack' = Push(f) /\ f.awaiting = "none" /\ f.snap = NoSnap
                         /\ f.events = RunEvents(calls + 1) /\ f.sub = <<>>
  BY DEF PushStep
<1>7. Explained(p, RunEvents(calls + 1), r)
  BY <1>1, <1>2, <1>3, <1>5, RunLog
<1>8. f.events \in Seq(Event) /\ f.events \o f.sub = f.events
  BY <1>6, EmptyConcat DEF Frame
<1>9. Link(p, f, r)
  BY <1>6, <1>7, <1>8 DEF Link
<1>10. PICK t \in Seq(Frame) : t = stack' /\ t[Len(t)] = f /\ Pushed(stack, t)
  <2>1. /\ Push(f) \in Seq(Frame) /\ Len(Push(f)) = Len(stack) + 1
        /\ Push(f)[Len(stack) + 1] = f
        /\ \A i \in 1..Len(stack) : Push(f)[i] = stack[i]
    BY <1>4, PushFacts
  <2>2. QED  BY <1>4, <1>6, <2>1 DEF Pushed
<1>11. Chain(b, stack, tx.snap, calls')
  BY <1>1, <1>4, ChainLater
<1>12. Link(b[Len(stack)], t[Len(t)], r) /\ r.calls <= calls'
  BY <1>2, <1>4, <1>5, <1>9, <1>10
<1>13. PICK d \in [Nat -> Point] : Chain(d, t, tx.snap, calls') /\ d[Len(t)] = r
  BY <1>4, <1>10, <1>11, <1>12, ChainPush
<1>14. Explained(r, <<>>, r)
  BY <1>4, <1>5, NothingExplained
<1>15. InFlight(r, pc', call', ret', r)
  BY <1>3, <1>14 DEF InFlight
<1>16. QED  BY <1>3, <1>4, <1>5, <1>10, <1>13, <1>15 DEF LogInv

\* The innermost activation changes: its new point is the present.
LEMMA TopLog ==
    ASSUME TInv, LogInv, Next, stack # <<>>, NEW b \in [Nat -> Point],
           Chain(b, stack, tx.snap, calls), NEW d \in Frame, stack' = SetTop(d),
           UNCHANGED <<tx, calls>>, Link(b[Len(stack) - 1], d, Now'),
           pc' \in {"call", "loop"},
           pc' = "call" => /\ call'.due = call'.coins
                           /\ call'.kind = "reply" => call'.coins = <<>>
    PROVE  LogInv'
<1>1. /\ (Now \in Point)' /\ Now'.calls = calls' /\ calls' \in Nat
      /\ calls \in Nat /\ stack \in Seq(Frame) /\ Len(stack) > 0
  BY NextPoint, CallFacts
<1>2. PICK r \in Point : r = Now' /\ r.calls = calls'
  BY <1>1
<1>3. PICK t \in Seq(Frame) : t = stack' /\ t[Len(stack)] = d /\ Retopped(stack, t)
  <2>1. /\ SetTop(d) \in Seq(Frame) /\ Len(SetTop(d)) = Len(stack)
        /\ SetTop(d)[Len(stack)] = d
        /\ \A i \in 1..Len(stack) : i # Len(stack) => SetTop(d)[i] = stack[i]
    BY <1>1, SetTopFacts
  <2>2. QED  BY <1>1, <2>1 DEF Retopped
<1>4. Link(b[Len(stack) - 1], t[Len(stack)], r) /\ r.calls <= calls
  BY <1>1, <1>2, <1>3
<1>5. PICK e \in [Nat -> Point] : Chain(e, t, tx.snap, calls) /\ e[Len(t)] = r
  <2>1. PICK n \in Nat : n = calls
    BY <1>1
  <2>2. PICK s : s = stack
    OBVIOUS
  <2>3. /\ Retopped(s, t) /\ Chain(b, s, tx.snap, n) /\ r.calls <= n
        /\ Link(b[Len(s) - 1], t[Len(s)], r)
    BY <1>3, <1>4, <2>1, <2>2
  <2>4. \E e \in [Nat -> Point] : Chain(e, t, tx.snap, n) /\ e[Len(t)] = r
    BY <2>3, ChainTop
  <2>5. QED  BY <2>1, <2>4
<1>6. Explained(r, <<>>, r)
  BY <1>1, <1>2, NothingExplained
<1>7. InFlight(r, pc', call', ret', r)
  BY <1>6 DEF InFlight
<1>8. QED  BY <1>1, <1>2, <1>3, <1>5, <1>7 DEF LogInv

\* What the innermost activation was told so far, and by the result that
\* came back.
LEMMA TopExplained ==
    ASSUME TInv, LogInv, stack # <<>>, pc \in {"loop", "ret"}
    PROVE  \E b \in [Nat -> Point] :
             /\ Chain(b, stack, tx.snap, calls)
             /\ b[Len(stack) - 1] \in Point
             /\ Top.snap # NoSnap => Top.awaiting = "sub"
             /\ Top.awaiting # "reply" => Top.sub = <<>>
             /\ pc = "loop" => /\ Top.sub = <<>>
                               /\ Explained(b[Len(stack) - 1], Top.events, Now)
             /\ pc = "ret" /\ ret.err = "none" =>
                  Explained(b[Len(stack) - 1], (Top.events \o Top.sub) \o ret.events, Now)
             /\ Top.awaiting = "sub" /\ Top.snap # NoSnap =>
                  \E q \in Point :
                    /\ q.vm = Top.snap /\ q.calls <= calls
                    /\ Explained(b[Len(stack) - 1], Top.events, q)
<1>1. PICK b \in [Nat -> Point] :
        /\ Chain(b, stack, tx.snap, calls)
        /\ InFlight(b[Len(stack)], pc, call, ret, Now)
  BY DEF LogInv
<1>2. PICK p \in Point, q \in Point :
        /\ p = b[Len(stack) - 1] /\ q = b[Len(stack)]
        /\ q.calls <= calls /\ Link(p, Top, q)
  BY <1>1, ChainFacts
<1>3. Top.events \in Seq(Event) /\ Top.sub \in Seq(Event) /\ ret.events \in Seq(Event)
  BY InnermostFacts
<1>4. PICK told \in Seq(Event) : told = Top.events \o Top.sub
  BY <1>3, ConcatFacts
<1>5. /\ Explained(p, told, q)
      /\ Top.snap # NoSnap => Top.awaiting = "sub" /\ Top.snap = q.vm
      /\ Top.awaiting # "reply" => Top.sub = <<>>
  BY <1>2, <1>4 DEF Link
<1>6. Top.sub = <<>> => told = Top.events
  BY <1>3, <1>4, EmptyConcat
<1>7. Now \in Point
  BY NowFacts
<1>8. pc = "loop" => Top.sub = <<>> /\ Explained(p, Top.events, Now)
  <2>1. SUFFICES ASSUME pc = "loop"
                 PROVE  Top.sub = <<>> /\ Explained(p, Top.events, Now)
    OBVIOUS
  <2>2. Len(stack) \in 1..Len(stack)
    BY CallFacts, TopFacts
  <2>3. Top.awaiting = "none"
    BY <2>1, <2>2 DEF TInv, Control, StackControl, Top
  <2>4. Explained(q, <<>>, Now)
    BY <1>1, <1>2, <2>1 DEF InFlight
  <2>5. Explained(p, told, Now)
    BY <1>5, <1>7, <2>4, ExplainedLater
  <2>6. QED  BY <1>5, <1>6, <2>3, <2>5
<1>9. pc = "ret" /\ ret.err = "none" => Explained(p, told \o ret.events, Now)
  <2>1. SUFFICES ASSUME pc = "ret", ret.err = "none"
                 PROVE  Explained(p, told \o ret.events, Now)
    OBVIOUS
  <2>2. Explained(q, ret.events, Now)
    BY <1>1, <1>2, <2>1 DEF InFlight
  <2>3. QED  BY <1>3, <1>5, <1>7, <2>2, ExplainedTogether
<1>10. QED  BY <1>1, <1>2, <1>4, <1>5, <1>6, <1>8, <1>9

LEMMA DispatchLog ==
    ASSUME TInv, LogInv, Next, DispatchStep
    PROVE  LogInv'
<1>1. /\ stack # <<>> /\ pc = "loop" /\ pc' = "call"
      /\ vm' = vm /\ tx' = tx /\ calls' = calls
      /\ call'.kind # "reply" /\ call'.due = call'.coins
  BY DEF DispatchStep
<1>2. PICK b \in [Nat -> Point] :
        /\ Chain(b, stack, tx.snap, calls)
        /\ Top.sub = <<>> /\ Explained(b[Len(stack) - 1], Top.events, Now)
  BY <1>1, TopExplained
<1>3. PICK d \in Frame :
        /\ stack' = SetTop(d) /\ d.awaiting = "sub" /\ d.snap \in {vm, NoSnap}
        /\ d.events = Top.events /\ d.sub = Top.sub
  BY DEF DispatchStep
<1>4. Now' = Now /\ Now.vm = vm
  BY <1>1 DEF Now
<1>5. d.events \o d.sub = Top.events
  BY <1>1, <1>2, <1>3, InnermostFacts, EmptyConcat
<1>6. Link(b[Len(stack) - 1], d, Now')
  BY <1>2, <1>3, <1>4, <1>5 DEF Link
<1>7. QED  BY <1>1, <1>2, <1>3, <1>6, TopLog

LEMMA PopLog ==
    ASSUME TInv, LogInv, Next, PopStep
    PROVE  LogInv'
<1>1. /\ stack # <<>> /\ pc \in {"loop", "ret"} /\ pc' = "ret"
      /\ vm' = vm /\ tx' = tx /\ calls' = calls /\ stack' = Pop
      /\ ret'.err = "none" => pc = "loop" /\ ret'.events = Top.events
  BY DEF PopStep
<1>2. PICK b \in [Nat -> Point] :
        /\ Chain(b, stack, tx.snap, calls)
        /\ pc = "loop" => Explained(b[Len(stack) - 1], Top.events, Now)
  BY <1>1, TopExplained
<1>3. stack \in Seq(Frame) /\ calls \in Nat
  BY CallFacts
<1>4. /\ Pop \in Seq(Frame) /\ Len(Pop) = Len(stack) - 1
      /\ \A i \in 1..Len(Pop) : Pop[i] = stack[i]
  BY <1>1, <1>3, PopFacts
<1>5. Now' = Now /\ (Now \in Point)'
  BY <1>1, NextPoint DEF Now
<1>6. Chain(b, Pop, tx.snap, calls)
  BY <1>2, <1>3, <1>4, ChainPop
<1>7. InFlight(b[Len(stack) - 1], pc', call', ret', Now')
  BY <1>1, <1>2, <1>5 DEF InFlight
<1>8. QED  BY <1>1, <1>4, <1>5, <1>6, <1>7 DEF LogInv

LEMMA ReplyLog ==
    ASSUME TInv, LogInv, Next, ReplyStep
    PROVE  LogInv'
<1>1. /\ stack # <<>> /\ pc = "ret" /\ pc' = "call" /\ Top.awaiting = "sub"
      /\ tx' = tx /\ calls' = calls
      /\ call'.coins = <<>> /\ call'.due = <<>>
  BY DEF ReplyStep
<1>2. PICK b \in [Nat -> Point] :
        /\ Chain(b, stack, tx.snap, calls)
        /\ b[Len(stack) - 1] \in Point
        /\ Top.sub = <<>>
        /\ ret.err = "none" =>
             Explained(b[Len(stack) - 1], (Top.events \o Top.sub) \o ret.events, Now)
        /\ Top.snap # NoSnap =>
             \E q \in Point : /\ q.vm = Top.snap /\ q.calls <= calls
                              /\ Explained(b[Len(stack) - 1], Top.events, q)
  BY <1>1, TopExplained
<1>3. PICK p \in Point : p = b[Len(stack) - 1]
  BY <1>2
<1>4. PICK d \in Frame :
        /\ stack' = SetTop(d) /\ d.awaiting = "reply" /\ d.snap = NoSnap
        /\ d.events = Top.events
        /\ d.sub = IF ret.err = "none" THEN ret.events ELSE <<>>
  BY DEF ReplyStep
<1>5. Top.events \in Seq(Event) /\ Top.events \o <<>> = Top.events
  BY <1>1, InnermostFacts, EmptyConcat
<1>6. Explained(p, d.events \o d.sub, Now')
  <2>1. CASE vm' = vm /\ ret.err = "none"
    <3>1. Now' = Now
      BY <1>1, <2>1 DEF Now
    <3>2. QED  BY <1>2, <1>3, <1>4, <1>5, <2>1, <3>1
  <2>2. CASE CanCatchError(Top.replyOn) /\ vm' = Top.snap /\ ret.err # "none"
    <3>1. Top.snap # NoSnap
      BY <1>1, <2>2, InnermostFacts, NoSnapAssumption
    <3>2. PICK q \in Point : /\ q.vm = Top.snap /\ q.calls <= calls
                             /\ Explained(p, Top.events, q)
      BY <1>2, <1>3, <3>1
    <3>3. (Now \in Point)' /\ Now'.vm = vm' /\ Now'.calls = calls'
      BY NextPoint
    <3>4. PICK r \in Point : r = Now' /\ r.vm = vm' /\ r.calls = calls'
      BY <3>3
    <3>5. Explained(q, <<>>, r)
      BY <1>1, <2>2, <3>2, <3>4, NothingExplained
    <3>6. Explained(p, Top.events, r)
      BY <1>5, <3>2, <3>5, ExplainedLater
    <3>7. QED  BY <1>4, <1>5, <2>2, <3>4, <3>6
  <2>3. QED  BY <2>1, <2>2 DEF ReplyStep
<1>7. Link(b[Len(stack) - 1], d, Now')
  BY <1>3, <1>4, <1>6 DEF Link
<1>8. QED  BY <1>1, <1>2, <1>4, <1>7, TopLog

LEMMA ResumeLog ==
    ASSUME TInv, LogInv, Next, ResumeStep
    PROVE  LogInv'
<1>1. /\ stack # <<>> /\ pc = "ret" /\ pc' = "loop" /\ ret.err = "none"
      /\ vm' = vm /\ tx' = tx /\ calls' = calls
  BY DEF ResumeStep
<1>2. PICK b \in [Nat -> Point] :
        /\ Chain(b, stack, tx.snap, calls)
        /\ Top.snap # NoSnap => Top.awaiting = "sub"
        /\ Top.awaiting # "reply" => Top.sub = <<>>
        /\ Explained(b[Len(stack) - 1], (Top.events \o Top.sub) \o ret.events, Now)
  BY <1>1, TopExplained
<1>3. PICK d \in Frame :
        /\ stack' = SetTop(d) /\ d.awaiting = "none" /\ d.snap \in {Top.snap, NoSnap}
        /\ \/ /\ Top.awaiting = "sub" /\ d.snap = NoSnap
              /\ d.events = Top.events \o ret.events /\ d.sub = Top.sub
           \/ /\ Top.awaiting = "reply"
              /\ d.events = Top.events \o Top.sub \o ret.events /\ d.sub = <<>>
  BY DEF ResumeStep
<1>4. Now' = Now
  BY <1>1 DEF Now
<1>5. Top.events \in Seq(Event) /\ Top.sub \in Seq(Event) /\ ret.events \in Seq(Event)
  BY <1>1, InnermostFacts
<1>6. d.snap = NoSnap /\ d.sub = <<>>
  BY <1>2, <1>3
<1>7. d.events = (Top.events \o Top.sub) \o ret.events
  BY <1>2, <1>3, <1>5, EmptyConcat
<1>8. d.events \o d.sub = d.events
  <2>1. d.events \in Seq(Event)
    BY DEF Frame
  <2>2. QED  BY <1>6, <2>1, EmptyConcat
<1>9. Link(b[Len(stack) - 1], d, Now')
  BY <1>2, <1>4, <1>6, <1>7, <1>8 DEF Link
<1>10. QED  BY <1>1, <1>2, <1>3, <1>9, TopLog

LEMMA NextLog ==
    ASSUME TInv, InstanceInv, LogInv, [Next]_vars
    PROVE  LogInv'
<1>1. CASE UNCHANGED vars
  <2>1. Now' = Now
    BY <1>1 DEF Now, vars
  <2>2. QED  BY <1>1, <2>1 DEF LogInv, vars
<1>2. CASE Next
  <2>1. EndStep => LogInv'
    BY <1>2, NextPoint DEF EndStep, LogInv
  <2>2. QED
    BY <1>2, <2>1, BeginLog, ProceedLog, ReturnLog, PushLog, DispatchLog, PopLog,
       ReplyLog, ResumeLog, StepKinds
<1>3. QED  BY <1>1, <1>2

LEMMA LogInvInductive == Spec => []LogInv
<1>1. TInv /\ InstanceInv /\ LogInv /\ [Next]_vars => LogInv'
  BY NextLog
<1>2. QED  BY <1>1, InitLog, TInvInductive, InstanceInvInductive, PTL DEF Spec

\* A successful transaction is explained by the events it returns.
LEMMA TxExplained ==
    ASSUME TInv, LogInv, TxSucceeded
    PROVE  /\ Stamps(ret.events) = Written(tx.snap, vm)
           /\ \A i, j \in Runs(ret.events) :
                i < j => ret.events[i].stamp < ret.events[j].stamp
           /\ \A a \in Addr : vm.balance[a] + Spent(ret.events, a) =
                                  tx.snap.balance[a] + Received(ret.events, a)
           /\ vm.contracts = tx.snap.contracts \cup Created(ret.events)
           /\ tx.snap.contracts \cap Created(ret.events) = {}
<1>1. pc = "ret" /\ ret.err = "none" /\ Len(stack) = 0
  BY DEF TxSucceeded
<1>2. PICK b \in [Nat -> Point] :
        /\ Chain(b, stack, tx.snap, calls)
        /\ InFlight(b[Len(stack)], pc, call, ret, Now)
  BY <1>1 DEF LogInv
<1>3. b[0].vm = tx.snap /\ Explained(b[0], ret.events, Now)
  BY <1>1, <1>2 DEF Chain, InFlight
<1>4. Now.vm = vm
  BY DEF Now
<1>5. QED  BY <1>3, <1>4 DEF Explained, Reported, Accounted

\* The events of a successful transaction name exactly the runs whose writes
\* survived, in the order they ran: the event merging of dispatchMessages
\* and the snapshots agree, however sub-messages, replies and caught
\* failures nest.
THEOREM EventsNameSurvivingRuns == Spec => []RunsReported
<1>1. TInv /\ LogInv => RunsReported
  BY TxExplained DEF RunsReported
<1>2. QED  BY <1>1, TInvInductive, LogInvInductive, PTL

\* The MessageInfo contracts are handed and the engine's transfer events give
\* every balance of a successful transaction, for any accounts, any coins and
\* any nesting: transferFunds, the event merging and the snapshots agree.
THEOREM FundsAsTold == Spec => []BalancesExplained
<1>1. TInv /\ LogInv => BalancesExplained
  BY TxExplained DEF BalancesExplained
<1>2. QED  BY <1>1, TInvInductive, LogInvInductive, PTL

-----------------------------------------------------------------------------
(***************************************************************************)
(* Announcements.  Of the contracts that report their instantiation, the   *)
(* engine announces all but the one the transaction itself creates, and    *)
(* that one ran first: it is in the events of the outermost activation.    *)
(***************************************************************************)
Names(events, own) == Created(events) = Announced(events) \cup own
OwnAt(depth) == IF depth = 0 THEN tx.created ELSE {}

AnnounceInv ==
    /\ \A i \in 1..Len(stack) :
        Names(stack[i].events, OwnAt(i - 1)) /\ Names(stack[i].sub, {})
    /\ pc \in {"call", "pay", "run"} /\ stack = <<>> =>
        tx.created = IF call.kind = "instantiate" THEN {call.to} ELSE {}
    /\ pc = "ret" /\ ret.err = "none" => Names(ret.events, OwnAt(Len(stack)))

LEMMA NoNames == Names(<<>>, {})
BY NoEvents DEF Names, Announced

LEMMA AnnouncedConcat ==
    ASSUME NEW s \in Seq(Event), NEW t \in Seq(Event)
    PROVE  Announced(s \o t) = Announced(s) \cup Announced(t)
<1> DEFINE c == s \o t
<1>1. /\ Len(s) \in Nat /\ Len(t) \in Nat
      /\ DOMAIN s = 1..Len(s) /\ DOMAIN t = 1..Len(t)
      /\ DOMAIN c = 1..(Len(s) + Len(t))
      /\ \A i \in 1..Len(s) : c[i] = s[i]
      /\ \A i \in 1..Len(t) : c[i + Len(s)] = t[i]
  BY ConcatFacts
<1> HIDE DEF c
<1>2. ASSUME NEW i \in DOMAIN c, i \notin DOMAIN s
      PROVE  \E j \in DOMAIN t : c[i] = t[j]
  <2>1. i - Len(s) \in 1..Len(t) /\ i = (i - Len(s)) + Len(s)
    BY <1>1, <1>2
  <2>2. QED  BY <1>1, <2>1
<1>3. /\ \A i \in DOMAIN s : i \in DOMAIN c /\ c[i] = s[i]
      /\ \A i \in DOMAIN t : i + Len(s) \in DOMAIN c /\ c[i + Len(s)] = t[i]
  BY <1>1
<1>4. Announced(c) \subseteq Announced(s) \cup Announced(t)
  BY <1>2, <1>3 DEF Announced
<1>5. Announced(s) \subseteq Announced(c)
  BY <1>3 DEF Announced
<1>6. Announced(t) \subseteq Announced(c)
  BY <1>3 DEF Announced
<1>7. QED  BY <1>4, <1>5, <1>6 DEF c

LEMMA NamesTogether ==
    ASSUME NEW s \in Seq(Event), NEW t \in Seq(Event), NEW own,
           Names(s, own), Names(t, {})
    PROVE  Names(s \o t, own)
BY RunsConcat, AnnouncedConcat DEF Names

\* A run's events announce the contract when a message created it.
LEMMA RunNames ==
    ASSUME call \in Call, NEW stamp \in Nat, NEW own,
           own = IF call.kind = "instantiate" /\ call.depth = 0 THEN {call.to} ELSE {}
    PROVE  Names(RunEvents(stamp), own)
<1> DEFINE e == [kind |-> "announced", from |-> call.to, to |-> call.to,
                 coins |-> <<>>, stamp |-> 0]
           r == EventOf(stamp)
<1>1. e.kind = "announced" /\ e.to = call.to /\ r.kind = call.kind /\ r.to = call.to
  BY DEF EventOf
<1>2. call.kind # "announced" /\ call.depth \in Nat
  BY DEF Call, Kinds
<1> HIDE DEF e, r
<1>3. ASSUME NEW x
      PROVE  /\ Created(<<x>>) = IF x.kind = "instantiate" THEN {x.to} ELSE {}
             /\ Announced(<<x>>) = IF x.kind = "announced" THEN {x.to} ELSE {}
  <2> DEFINE s == <<x>>
  <2>1. DOMAIN s = {1} /\ s[1] = x
    OBVIOUS
  <2> HIDE DEF s
  <2>2. /\ Created(s) = IF x.kind = "instantiate" THEN {x.to} ELSE {}
        /\ Announced(s) = IF x.kind = "announced" THEN {x.to} ELSE {}
    BY <2>1 DEF Created, Announced
  <2>3. QED  BY <2>2 DEF s
<1>4. <<e>> \in Seq(Event) \/ ~(call.kind = "instantiate" /\ call.depth > 0)
  BY RunEventsType DEF Announcement, e
<1>5. <<r>> \in Seq(Event)
  BY RunEventsType DEF r
<1>6. CASE call.kind = "instantiate" /\ call.depth > 0
  <2>1. RunEvents(stamp) = <<e>> \o <<r>>
    BY <1>6 DEF RunEvents, Announcement, e, r
  <2>2. /\ Created(<<e>> \o <<r>>) = Created(<<e>>) \cup Created(<<r>>)
        /\ Announced(<<e>> \o <<r>>) = Announced(<<e>>) \cup Announced(<<r>>)
    BY <1>4, <1>5, <1>6, RunsConcat, AnnouncedConcat
  <2>3. /\ Created(<<e>>) = {} /\ Created(<<r>>) = {call.to}
        /\ Announced(<<e>>) = {call.to} /\ Announced(<<r>>) = {}
    BY <1>1, <1>3, <1>6
  <2>4. own = {}
    BY <1>6
  <2>5. QED  BY <2>1, <2>2, <2>3, <2>4 DEF Names
<1>7. CASE ~(call.kind = "instantiate" /\ call.depth > 0)
  <2>1. RunEvents(stamp) = <<>> \o <<r>>
    BY <1>7 DEF RunEvents, Announcement, r
  <2>2. RunEvents(stamp) = <<r>>
    BY <1>5, <2>1, EmptyConcat
  <2>3. Created(<<r>>) = own /\ Announced(<<r>>) = {}
    <3>1. call.kind = "instantiate" => call.depth = 0
      BY <1>2, <1>7
    <3>2. /\ Created(<<r>>) = IF call.kind = "instantiate" THEN {call.to} ELSE {}
          /\ Announced(<<r>>) = {}
      BY <1>1, <1>2, <1>3
    <3>3. QED  BY <3>1, <3>2
  <2>4. QED  BY <2>2, <2>3 DEF Names
<1>8. QED  BY <1>6, <1>7

LEMMA NextAnnounce ==
    ASSUME TInv, DepthInv, AnnounceInv, [Next]_vars
    PROVE  AnnounceInv'
<1>1. stack \in Seq(Frame) /\ call \in Call /\ call.depth \in Nat /\ calls + 1 \in Nat
  BY CallFacts
<1>2. ASSUME UNCHANGED tx, NEW n PROVE OwnAt(n)' = OwnAt(n)
  BY <1>2 DEF OwnAt
<1>3. CASE UNCHANGED vars
  BY <1>3 DEF AnnounceInv, OwnAt, vars
<1>4. CASE BeginStep
  BY <1>4 DEF BeginStep, AnnounceInv
<1>5. CASE ProceedStep
  BY <1>5 DEF ProceedStep, AnnounceInv, OwnAt
\* A run of the call in flight names what it should.
<1>6. ASSUME pc = "run" PROVE Names(RunEvents(calls + 1), OwnAt(Len(stack)))
  <2>1. call.depth = Len(stack)
    BY <1>6 DEF DepthInv
  <2>2. OwnAt(Len(stack)) =
            IF call.kind = "instantiate" /\ call.depth = 0 THEN {call.to} ELSE {}
    BY <1>1, <1>6, <2>1 DEF AnnounceInv, OwnAt
  <2>3. QED  BY <1>1, <2>2, RunNames
<1>7. CASE ReturnStep
  <2>1. stack' = stack /\ tx' = tx /\ pc' = "ret"
    BY <1>7 DEF ReturnStep
  <2>2. ret'.err = "none" => Names(ret'.events, OwnAt(Len(stack)))
    <3>1. CASE pc = "run" /\ ret'.events = RunEvents(calls + 1)
      BY <1>6, <3>1
    <3>2. CASE pc = "pay" /\ call.kind = "bank" /\ ret'.events = <<EventOf(0)>>
      <4>1. Names(RunEvents(0), {}) /\ RunEvents(0) = <<>> \o <<EventOf(0)>>
        BY <1>1, <3>2, RunNames DEF RunEvents, Announcement
      <4>2. <<EventOf(0)>> \in Seq(Event)
        BY <1>1, EventOfType
      <4>3. Names(<<EventOf(0)>>, {})
        BY <4>1, <4>2, EmptyConcat
      <4>4. OwnAt(Len(stack)) = {}
        BY <1>1, <3>2 DEF AnnounceInv, OwnAt
      <4>5. QED  BY <3>2, <4>3, <4>4
    <3>3. QED  BY <1>7, <3>1, <3>2 DEF ReturnStep
  <2>3. QED  BY <1>2, <2>1, <2>2 DEF AnnounceInv
<1>8. CASE PushStep
  <2>1. PICK f \in Frame : /\ stack' = Push(f) /\ pc = "run" /\ pc' = "loop" /\ tx' = tx
                           /\ f.events = RunEvents(calls + 1) /\ f.sub = <<>>
    BY <1>8 DEF PushStep
  <2>2. /\ Len(stack') = Len(stack) + 1 /\ Len(stack) \in Nat
        /\ stack'[Len(stack) + 1] = f
        /\ \A i \in 1..Len(stack) : stack'[i] = stack[i]
    <3>1. /\ Len(Push(f)) = Len(stack) + 1 /\ Push(f)[Len(stack) + 1] = f
          /\ \A i \in 1..Len(stack) : Push(f)[i] = stack[i]
      BY <1>1, PushFacts
    <3>2. Len(stack) \in Nat /\ stack' = Push(f)
      BY <1>1, <2>1
    <3>3. QED  BY <3>1, <3>2
  <2>3. \A i \in 1..Len(stack') : i \in 1..Len(stack) \/ i = Len(stack) + 1
    BY <2>2
  <2>4. Names(f.events, OwnAt(Len(stack))) /\ Names(f.sub, {})
    BY <1>6, <2>1, NoNames
  <2>5. (Len(stack) + 1) - 1 = Len(stack)
    BY <2>2
  <2>6. \A i \in 1..Len(stack') :
            Names(stack'[i].events, OwnAt(i - 1)) /\ Names(stack'[i].sub, {})
    BY <2>2, <2>3, <2>4, <2>5 DEF AnnounceInv
  <2>7. QED  BY <1>2, <2>1, <2>6 DEF AnnounceInv
\* The innermost activation changes.
<1>9. ASSUME stack # <<>>, NEW d \in Frame, stack' = SetTop(d), tx' = tx,
             Names(d.events, OwnAt(Len(stack) - 1)), Names(d.sub, {}),
             pc' \in {"call", "loop"}
      PROVE  AnnounceInv'
  <2>1. /\ Len(stack') = Len(stack) /\ Len(stack) \in Nat /\ Len(stack) > 0
        /\ stack'[Len(stack)] = d
        /\ \A i \in 1..Len(stack) : i # Len(stack) => stack'[i] = stack[i]
    BY <1>1, <1>9, SetTopFacts
  <2>2. \A i \in 1..Len(stack') :
            Names(stack'[i].events, OwnAt(i - 1)) /\ Names(stack'[i].sub, {})
    BY <1>9, <2>1 DEF AnnounceInv
  <2>3. stack' # <<>>
    BY <2>1
  <2>4. QED  BY <1>2, <1>9, <2>2, <2>3 DEF AnnounceInv
<1>10. ASSUME stack # <<>>
       PROVE  /\ Names(Top.events, OwnAt(Len(stack) - 1)) /\ Names(Top.sub, {})
              /\ pc = "ret" /\ ret.err = "none" => Names(ret.events, {})
              /\ Top.events \in Seq(Event) /\ Top.sub \in Seq(Event)
              /\ ret.events \in Seq(Event)
  <2>1. Len(stack) \in 1..Len(stack) /\ Len(stack) # 0
    BY <1>1, <1>10
  <2>2. OwnAt(Len(stack)) = {}
    BY <2>1 DEF OwnAt
  <2>3. QED  BY <1>10, <2>1, <2>2, InnermostFacts DEF AnnounceInv, Top
<1>11. CASE DispatchStep
  <2>1. PICK d \in Frame : /\ stack' = SetTop(d) /\ d.events = Top.events
                           /\ d.sub = Top.sub
    BY <1>11 DEF DispatchStep
  <2>2. stack # <<>> /\ tx' = tx /\ pc' = "call"
    BY <1>11 DEF DispatchStep
  <2>3. QED  BY <1>9, <1>10, <2>1, <2>2
<1>12. CASE PopStep
  <2>1. /\ stack # <<>> /\ stack' = Pop /\ tx' = tx /\ pc' = "ret"
        /\ ret'.err = "none" => ret'.events = Top.events
    BY <1>12 DEF PopStep
  <2>2. /\ Len(stack') = Len(stack) - 1 /\ Len(stack) \in Nat
        /\ \A i \in 1..Len(stack') : i \in 1..Len(stack) /\ stack'[i] = stack[i]
    BY <1>1, <2>1, PopFacts
  <2>3. \A i \in 1..Len(stack') :
            Names(stack'[i].events, OwnAt(i - 1)) /\ Names(stack'[i].sub, {})
    BY <2>2 DEF AnnounceInv
  <2>4. ret'.err = "none" => Names(ret'.events, OwnAt(Len(stack')))
    BY <1>10, <2>1, <2>2
  <2>5. QED  BY <1>2, <2>1, <2>3, <2>4 DEF AnnounceInv
<1>13. CASE ReplyStep
  <2>1. PICK d \in Frame : /\ stack' = SetTop(d) /\ d.events = Top.events
                           /\ d.sub = IF ret.err = "none" THEN ret.events ELSE <<>>
    BY <1>13 DEF ReplyStep
  <2>2. stack # <<>> /\ tx' = tx /\ pc' = "call" /\ pc = "ret"
    BY <1>13 DEF ReplyStep
  <2>3. QED  BY <1>9, <1>10, <2>1, <2>2, NoNames
<1>14. CASE ResumeStep
  <2>1. PICK d \in Frame :
          /\ stack' = SetTop(d)
          /\ \/ d.events = Top.events \o ret.events /\ d.sub = Top.sub
             \/ d.events = Top.events \o Top.sub \o ret.events /\ d.sub = <<>>
    BY <1>14 DEF ResumeStep
  <2>2. stack # <<>> /\ tx' = tx /\ pc' = "loop" /\ pc = "ret" /\ ret.err = "none"
    BY <1>14 DEF ResumeStep
  <2>3. Names(Top.events \o ret.events, OwnAt(Len(stack) - 1))
    BY <1>10, <2>2, NamesTogether
  <2>4. Names(Top.events \o Top.sub \o ret.events, OwnAt(Len(stack) - 1))
    <3>1. Names(Top.events \o Top.sub, OwnAt(Len(stack) - 1))
      BY <1>10, <2>2, NamesTogether
    <3>2. Top.events \o Top.sub \in Seq(Event)
      BY <1>10, <2>2
    <3>3. QED  BY <1>10, <2>2, <3>1, <3>2, NamesTogether
  <2>5. QED  BY <1>9, <1>10, <2>1, <2>2, <2>3, <2>4, NoNames
<1>15. CASE EndStep
  BY <1>15 DEF EndStep, AnnounceInv
<1>16. QED
  BY <1>3, <1>4, <1>5, <1>7, <1>8, <1>11, <1>12, <1>13, <1>14, <1>15, StepKinds

\* The instantiate events of a successful transaction and the address in its
\* own result name exactly the contracts it created, for any nesting of
\* messages, replies and caught failures.
THEOREM NewContractsAnnounced == Spec => []ContractsAnnounced
<1>1. Init => DepthInv /\ AnnounceInv
  BY BoundsAssumption DEF Init, DepthInv, DepthBounded, AnnounceInv
<1>2. TInv /\ DepthInv /\ [Next]_vars => DepthInv'
  BY NextDepth
<1>3. TInv /\ DepthInv /\ AnnounceInv /\ [Next]_vars => AnnounceInv'
  BY NextAnnounce
<1>4. TInv /\ LogInv /\ AnnounceInv => ContractsAnnounced
  <2>1. SUFFICES ASSUME TInv, LogInv, AnnounceInv, TxSucceeded
                 PROVE  vm.contracts \ tx.snap.contracts
                            = Announced(ret.events) \cup tx.created
    BY DEF ContractsAnnounced
  <2>2. /\ vm.contracts = tx.snap.contracts \cup Created(ret.events)
        /\ tx.snap.contracts \cap Created(ret.events) = {}
    BY <2>1, TxExplained
  <2>3. OwnAt(Len(stack)) = tx.created
    BY <2>1 DEF TxSucceeded, OwnAt
  <2>4. Created(ret.events) = Announced(ret.events) \cup tx.created
    BY <2>1, <2>3 DEF TxSucceeded, AnnounceInv, Names
  <2>5. QED  BY <2>2, <2>4
<1>5. QED
  BY <1>1, <1>2, <1>3, <1>4, TInvInductive, LogInvInductive, PTL DEF Spec
=============================================================================
