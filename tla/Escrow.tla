------------------------------- MODULE Escrow -------------------------------
(***************************************************************************)
(* The contracts of contracts/token and contracts/escrow on the node's     *)
(* block clock.  A step is a committed transaction; a call that returns an *)
(* error, whose sub-message fails or whose arithmetic overflows leaves no  *)
(* trace (modules NitroVM and Node) and is a stuttering step.              *)
(*                                                                         *)
(* The block time a contract sees is the time of the last committed        *)
(* operation: TickOp sets it after the call.  now is the wall clock of the *)
(* host, which time.Now reads: it passes and may be set back at any time.  *)
(***************************************************************************)
EXTENDS Integers, Sequences, FiniteSets, Sums

CONSTANTS
    Users,        \* accounts that sign transactions
    MaxEscrows,   \* bound on escrow contracts, at addresses 1..MaxEscrows
    Supply,       \* tokens each user holds at the start
    MaxUint128,   \* the largest Uint128
    Amounts,      \* amounts of transfers and deposits
    Prices,       \* amounts escrows are instantiated with
    Sellers,      \* sellers escrows are instantiated with
    Arbiters,     \* arbiters escrows are instantiated with
    Seconds,      \* values of expiry_seconds that messages carry
    Second,       \* nanoseconds in a second
    MaxUint64,    \* the largest u64
    MaxNow,       \* bound on the wall clock
    None          \* Option::None

ASSUME EscrowAssumption ==
    /\ Users \cap Int = {}
    /\ None \notin Users \cup Int
    /\ MaxEscrows \in Nat
    /\ Supply \in Nat
    /\ IsFiniteSet(Users)
    /\ Supply * Cardinality(Users) <= MaxUint128
    /\ MaxUint128 \in Nat
    /\ Amounts \cup Prices \subseteq 0..MaxUint128
    /\ Sellers \cup Arbiters \subseteq Users \cup 1..MaxEscrows
    /\ Seconds \subseteq Nat
    /\ Second \in Nat \ {0}
    /\ MaxUint64 \in Nat
    /\ MaxNow \in 0..MaxUint64

EscrowAddr == 1..MaxEscrows
Addr == Users \cup EscrowAddr

Status == {"open", "released", "refunded"}

\* state.rs, and in asked what the properties remember of an instantiation
\* with an expiry: the seconds, the block time and the time on the wall.
EscrowState ==
    [buyer : Addr \cup {None}, seller : Addr, arbiter : Addr, amount : Nat,
     deposited : Nat, expiry : Nat \cup {None}, status : Status,
     code : BOOLEAN, asked : [seconds : Nat, block : Nat, wall : Nat] \cup {None}]

VARIABLES
    balance,    \* the token contract's balances
    escrows,    \* the escrow contracts, by address
    blockTime,  \* NitroVM.blockTime, as the next call sees it
    savedTime,  \* the block_time row of the database
    now,        \* the wall clock
    setBack,    \* history: the wall clock was set back since the last
                \* committed operation read it
    paid        \* history: the transfers escrows made, in order

vars == <<balance, escrows, blockTime, savedTime, now, setBack, paid>>

-----------------------------------------------------------------------------
(***************************************************************************)
(* The clock.                                                              *)
(***************************************************************************)
Pass ==
    /\ now < MaxNow
    /\ now' = now + 1
    /\ UNCHANGED <<balance, escrows, blockTime, savedTime, setBack, paid>>

SetBack ==
    /\ now' \in 0..now - 1
    /\ setBack' = TRUE
    /\ UNCHANGED <<balance, escrows, blockTime, savedTime, paid>>

\* Mutant: the row takes the time the call saw.
TickOpSavesOld ==
    /\ blockTime' = now
    /\ savedTime' = blockTime
    /\ setBack' = FALSE
    /\ UNCHANGED now

\* Every committed operation ends with tickOp: the VM takes the time, and the
\* row that restore() will read takes it again, possibly a little later, or
\* from a clock that was set back in between.
TickOp ==
    /\ blockTime' = now
    /\ now' \in 0..MaxNow /\ now' <= now + 1
    /\ savedTime' = now'
    /\ setBack' = (now' < now)

\* The node stops and is started again; without a row it takes the time.
Restart ==
    /\ blockTime' = IF savedTime = None THEN now ELSE savedTime
    /\ UNCHANGED <<balance, escrows, savedTime, now, setBack, paid>>

-----------------------------------------------------------------------------
(***************************************************************************)
(* The token contract.                                                     *)
(***************************************************************************)
\* Mutant: both balances are loaded before either is saved.
MovedStale(b, from, to, amount) ==
    [b EXCEPT ![from] = b[from] - amount, ![to] = b[to] + amount]

\* The recipient's balance is loaded after the sender's was saved.
Moved(b, from, to, amount) ==
    LET spent == [b EXCEPT ![from] = @ - amount]
    IN  [spent EXCEPT ![to] = @ + amount]

\* Mutant: the balance is not looked at.
CanTransferUnchecked(b, from, to, amount) ==
    /\ amount > 0
    /\ Moved(b, from, to, amount)[to] <= MaxUint128

\* execute_transfer succeeds: the amount is not zero, is available, and the
\* recipient's sum fits a Uint128.
CanTransfer(b, from, to, amount) ==
    /\ amount > 0
    /\ b[from] >= amount
    /\ Moved(b, from, to, amount)[to] <= MaxUint128

\* A user calls the token contract.
Transfer ==
    \E from \in Users, to \in Addr, amount \in Amounts :
        /\ CanTransfer(balance, from, to, amount)
        /\ balance' = Moved(balance, from, to, amount)
        /\ TickOp
        /\ UNCHANGED <<escrows, paid>>

-----------------------------------------------------------------------------
(***************************************************************************)
(* The escrow contract.                                                    *)
(***************************************************************************)
Open(e) == escrows[e].status = "open"

\* instantiate computes the expiry from the block time with checked u64
\* arithmetic.  Mutant: the sum wraps around.
ExpiryWraps(time, seconds) ==
    IF seconds = None THEN None
    ELSE (time + seconds * Second) % (MaxUint64 + 1)
Expiry(time, seconds) ==
    IF seconds = None THEN None ELSE time + seconds * Second

FitsUint64(seconds) ==
    Expiry(blockTime, seconds) \in 0..MaxUint64 \cup {None}

NewEscrow(seller, arbiter, amount, seconds, code) ==
    [buyer |-> None, seller |-> seller, arbiter |-> arbiter, amount |-> amount,
     deposited |-> 0, expiry |-> Expiry(blockTime, seconds), status |-> "open",
     code |-> code,
     asked |-> IF seconds = None THEN None
               ELSE [seconds |-> seconds, block |-> blockTime, wall |-> now]]

Create(e) ==
    /\ Len(escrows) < MaxEscrows
    /\ escrows' = Append(escrows, e)
    /\ TickOp
    /\ UNCHANGED <<balance, paid>>

Instantiate ==
    \E seller \in Sellers, arbiter \in Arbiters, amount \in Prices,
       seconds \in Seconds \cup {None}, code \in BOOLEAN :
        /\ FitsUint64(seconds)
        /\ Create(NewEscrow(seller, arbiter, amount, seconds, code))

\* execute_clone: a sub-message instantiates an escrow without expiry.
CloneEscrow ==
    \E e \in DOMAIN escrows, seller \in Sellers, arbiter \in Arbiters, amount \in Prices :
        /\ escrows[e].code
        /\ Create(NewEscrow(seller, arbiter, amount, None, TRUE))

\* execute_deposit records a claim: no token moves.
Deposit ==
    \E e \in DOMAIN escrows, sender \in Users, amount \in Amounts :
        LET total == escrows[e].deposited + amount IN
        /\ amount > 0
        /\ Open(e)
        /\ total <= escrows[e].amount
        /\ escrows' = [escrows EXCEPT
              ![e].deposited = total,
              ![e].buyer = IF @ = None THEN sender ELSE @]
        /\ TickOp
        /\ UNCHANGED <<balance, paid>>

\* The sub-message that moves the escrow's tokens; its failure undoes all.
Pay(e, to) ==
    /\ CanTransfer(balance, e, to, escrows[e].deposited)
    /\ balance' = Moved(balance, e, to, escrows[e].deposited)
    /\ paid' = Append(paid, [from |-> e, to |-> to, amount |-> escrows[e].deposited])

\* Mutant: the arbiter releases what was deposited so far.
MayApproveUnfunded(e, sender) ==
    /\ Open(e)
    /\ sender \in {escrows[e].arbiter, escrows[e].buyer}

MayApprove(e, sender) ==
    /\ Open(e)
    /\ sender \in {escrows[e].arbiter, escrows[e].buyer}
    /\ escrows[e].deposited >= escrows[e].amount

\* Mutant: the new status is not saved.
ApproveUnsaved ==
    \E e \in DOMAIN escrows, sender \in Users :
        /\ MayApprove(e, sender)
        /\ Pay(e, escrows[e].seller)
        /\ TickOp
        /\ UNCHANGED escrows

Approve ==
    \E e \in DOMAIN escrows, sender \in Users :
        /\ MayApprove(e, sender)
        /\ escrows' = [escrows EXCEPT ![e].status = "released"]
        /\ Pay(e, escrows[e].seller)
        /\ TickOp

\* Only the arbiter may refund before the expiry, or without one.
MayRefund(e, sender) ==
    /\ Open(e)
    /\ \/ sender = escrows[e].arbiter
       \/ escrows[e].expiry # None /\ blockTime >= escrows[e].expiry

Refund ==
    \E e \in DOMAIN escrows, sender \in Users :
        /\ MayRefund(e, sender)
        /\ escrows' = [escrows EXCEPT ![e].status = "refunded"]
        /\ IF escrows[e].buyer = None \/ escrows[e].deposited = 0
           THEN UNCHANGED <<balance, paid>>
           ELSE Pay(e, escrows[e].buyer)
        /\ TickOp

\* execute_check_balance queries the token contract and changes nothing, and
\* any other transaction of the node changes neither contract.
OtherOp ==
    /\ TickOp
    /\ UNCHANGED <<balance, escrows, paid>>

-----------------------------------------------------------------------------
Init ==
    /\ balance = [a \in Addr |-> IF a \in Users THEN Supply ELSE 0]
    /\ escrows = <<>>
    /\ blockTime = 0
    /\ savedTime = None
    /\ now = 0
    /\ setBack = FALSE
    /\ paid = <<>>

Next ==
    \/ Pass \/ SetBack \/ Restart
    \/ Transfer \/ Instantiate \/ CloneEscrow \/ Deposit \/ Approve \/ Refund
    \/ OtherOp

Spec == Init /\ [][Next]_vars

-----------------------------------------------------------------------------
(***************************************************************************)
(* Properties.                                                             *)
(***************************************************************************)
TypeOK ==
    /\ balance \in [Addr -> 0..MaxUint128]
    /\ escrows \in Seq(EscrowState)
    /\ blockTime \in 0..MaxNow
    /\ savedTime \in 0..MaxNow \cup {None}
    /\ now \in 0..MaxNow
    /\ setBack \in BOOLEAN
    /\ paid \in Seq([from : EscrowAddr, to : Addr, amount : Nat])

PaymentsOf(e) == {i \in DOMAIN paid : paid[i].from = e}

\* What an escrow in its present state is to have paid out.
Due(e) ==
    LET s == escrows[e]
        paying(a, amount) == {[from |-> e, to |-> a, amount |-> amount]}
    IN  CASE s.status = "open" -> {}
          [] s.status = "released" -> paying(s.seller, s.amount)
          [] s.status = "refunded" ->
                IF s.deposited = 0 THEN {} ELSE paying(s.buyer, s.deposited)

\* An escrow pays nothing while it is open and exactly once when it is
\* closed: the amount agreed at instantiation to the seller when it was
\* released, whatever partial deposits by whomever came before, and what was
\* deposited to the recorded buyer when it was refunded (execute_approve,
\* execute_refund).  That the status and the tokens, which two contracts
\* keep, move in one step is the engine's doing (module NitroVM).
PaysOnce ==
    \A e \in DOMAIN escrows :
        /\ \A i, j \in PaymentsOf(e) : i = j
        /\ {paid[i] : i \in PaymentsOf(e)} = Due(e)

\* Transfers only move tokens, also when an account or an escrow pays itself:
\* the sum never changes (execute_transfer).
TokensConserved == Total(balance) = Supply * Cardinality(Users)

\* Nobody but the arbiter can refund before the seconds asked for have passed
\* on the block clock, for no value of expiry_seconds (u64 arithmetic).
ExpiryHonoured ==
    \A e \in DOMAIN escrows, sender \in Users :
        MayRefund(e, sender) /\ sender # escrows[e].arbiter =>
            LET asked == escrows[e].asked
            IN  blockTime >= asked.block + asked.seconds * Second

\* The node never takes the block time of transactions back, not at an
\* operation and not at a restart: only the host's clock can, when it is set
\* back after an operation read it and before the next one, or the restart,
\* does (TickOp, tickOp, restore).  Otherwise what has expired stays expired.
\* A query is no transaction: beside a commit that fails it may see a time
\* that Restore takes back.
BlockTimeMonotone == [][setBack \/ blockTime' >= blockTime]_vars

\* msg.rs on expiry_seconds: "Optional expiry in seconds from instantiation",
\* so nobody but the arbiter can refund earlier than that after it, on a host
\* whose clock is not set back.
ExpiryFromInstantiation ==
    \A e \in DOMAIN escrows, sender \in Users :
        MayRefund(e, sender) /\ sender # escrows[e].arbiter /\ ~setBack =>
            LET asked == escrows[e].asked
            IN  now >= asked.wall + asked.seconds * Second
=============================================================================
