---------------------------- MODULE EscrowProofs ----------------------------
(***************************************************************************)
(* Proofs about the token and escrow contracts and the block clock, for    *)
(* any users, prices, amounts and expiries and any number of escrows.      *)
(***************************************************************************)
EXTENDS Escrow, SumProofs

-----------------------------------------------------------------------------
(***************************************************************************)
(* The inductive invariant.                                                *)
(***************************************************************************)
\* The clocks are in order unless the wall clock was set back, so no restart
\* can take the block time back.
ClocksOrdered ==
    setBack \/ /\ blockTime <= now
               /\ savedTime # None => blockTime <= savedTime /\ savedTime <= now

\* What the contract's checks keep true of every escrow.
EscrowConsistent(s) ==
    /\ s.deposited <= s.amount
    /\ s.deposited > 0 => s.buyer # None
    /\ s.status = "released" => s.deposited = s.amount
    /\ s.expiry # None => s.expiry = s.asked.block + s.asked.seconds * Second

EscrowsConsistent ==
    /\ Len(escrows) <= MaxEscrows
    /\ \A e \in DOMAIN escrows : EscrowConsistent(escrows[e])
    /\ \A i \in DOMAIN paid : paid[i].from \in DOMAIN escrows

IInv == TypeOK /\ ClocksOrdered /\ EscrowsConsistent /\ PaysOnce

-----------------------------------------------------------------------------
(***************************************************************************)
(* The contracts' operations.                                              *)
(***************************************************************************)

\* A transfer that is carried out keeps every balance a Uint128.
LEMMA MovedType ==
    ASSUME NEW b \in [Addr -> 0..MaxUint128], NEW from \in Addr, NEW to \in Addr,
           NEW amount \in Nat, CanTransfer(b, from, to, amount)
    PROVE  Moved(b, from, to, amount) \in [Addr -> 0..MaxUint128]
BY EscrowAssumption DEF CanTransfer, Moved

\* tickOp puts the clocks in order and does not take the block time back.
LEMMA TickOpFacts ==
    ASSUME TypeOK, ClocksOrdered, TickOp
    PROVE  /\ blockTime' \in 0..MaxNow
           /\ savedTime' \in 0..MaxNow \cup {None}
           /\ now' \in 0..MaxNow
           /\ setBack' \in BOOLEAN
           /\ ClocksOrdered'
           /\ setBack \/ blockTime' >= blockTime
<1>1. /\ blockTime' = now /\ savedTime' = now' /\ now' \in 0..MaxNow /\ now \in 0..MaxNow
      /\ blockTime \in 0..MaxNow /\ MaxNow \in Nat
  BY EscrowAssumption DEF TypeOK, TickOp
<1>2. setBack' = (now' < now)
  BY DEF TickOp
<1>3. setBack' \in BOOLEAN
  <2>1. CASE now' < now
    BY <1>2, <2>1
  <2>2. CASE ~(now' < now)
    BY <1>2, <2>2
  <2>3. QED  BY <2>1, <2>2
<1>4. setBack' \/ ~(now' < now)
  BY <1>2, Zenon
<1>5. ClocksOrdered'
  <2>1. CASE setBack'
    BY <2>1 DEF ClocksOrdered
  <2>2. CASE ~(now' < now)
    BY <1>1, <2>2 DEF ClocksOrdered
  <2>3. QED  BY <1>4, <2>1, <2>2
<1>6. setBack \/ blockTime' >= blockTime
  BY <1>1 DEF ClocksOrdered
<1>7. QED  BY <1>1, <1>3, <1>5, <1>6

\* The type of the constants.
LEMMA ConstantFacts ==
    /\ None \notin Nat /\ None \notin Addr
    /\ Amounts \subseteq Nat /\ Prices \subseteq Nat /\ Seconds \subseteq Nat
    /\ Sellers \subseteq Addr /\ Arbiters \subseteq Addr /\ Users \subseteq Addr
    /\ Second \in Nat /\ MaxEscrows \in Nat /\ MaxNow \in Nat
BY EscrowAssumption DEF Addr, EscrowAddr

LEMMA NewEscrowFacts ==
    ASSUME TypeOK, NEW seller \in Sellers, NEW arbiter \in Arbiters,
           NEW amount \in Prices, NEW seconds \in Seconds \cup {None},
           NEW code \in BOOLEAN
    PROVE  LET s == NewEscrow(seller, arbiter, amount, seconds, code)
           IN  s \in EscrowState /\ EscrowConsistent(s) /\ s.status = "open"
<1>1. blockTime \in Nat /\ now \in Nat
  BY ConstantFacts DEF TypeOK
<1>2. CASE seconds = None
  <2>1. Expiry(blockTime, seconds) = None
    BY <1>2 DEF Expiry
  <2>2. QED  BY <1>1, <1>2, <2>1, ConstantFacts
             DEF NewEscrow, EscrowState, EscrowConsistent, Status
<1>3. CASE seconds \in Seconds /\ seconds # None
  <2>1. /\ seconds \in Nat
        /\ Expiry(blockTime, seconds) = blockTime + seconds * Second
        /\ blockTime + seconds * Second \in Nat
    BY <1>1, <1>3, ConstantFacts DEF Expiry
  <2> DEFINE x == blockTime + seconds * Second
             s == NewEscrow(seller, arbiter, amount, seconds, code)
             asked == [seconds |-> seconds, block |-> blockTime, wall |-> now]
  <2>2. /\ s = [buyer |-> None, seller |-> seller, arbiter |-> arbiter,
                amount |-> amount, deposited |-> 0, expiry |-> x,
                status |-> "open", code |-> code, asked |-> asked]
    BY <1>3, <2>1 DEF NewEscrow
  <2>3. asked.block + asked.seconds * Second = x
    OBVIOUS
  <2>4. x \in Nat /\ asked \in [seconds : Nat, block : Nat, wall : Nat]
    BY <1>1, <2>1
  <2> HIDE DEF x, s
  <2>5. s \in EscrowState
    <3> HIDE DEF asked
    <3>1. QED  BY <2>2, <2>4, ConstantFacts DEF EscrowState, Status
  <2>6. EscrowConsistent(s) /\ s.status = "open"
    <3> HIDE DEF asked
    <3>1. QED  BY <2>2, <2>3, ConstantFacts DEF EscrowConsistent
  <2>7. QED  BY <2>5, <2>6 DEF s
<1>4. QED  BY <1>2, <1>3

-----------------------------------------------------------------------------
(***************************************************************************)
(* The steps.                                                              *)
(***************************************************************************)
LEMMA InitInv == Init => IInv
<1> SUFFICES ASSUME Init PROVE IInv
  OBVIOUS
<1>1. Users # {} => Supply \in 0..MaxUint128
  <2> SUFFICES ASSUME Users # {} PROVE Supply \in 0..MaxUint128
    OBVIOUS
  <2>1. Cardinality(Users) \in Nat /\ Cardinality(Users) # 0
    BY FS_CardinalityType, FS_EmptySet, EscrowAssumption
  <2>2. PICK n \in Nat : Cardinality(Users) = n + 1
    BY <2>1
  <2>3. Supply * (n + 1) = Supply * n + Supply /\ Supply * n \in Nat
    BY EscrowAssumption
  <2>4. QED  BY <2>2, <2>3, EscrowAssumption
<1>2. setBack \in BOOLEAN
  BY Zenon DEF Init
<1>3. TypeOK
  BY <1>1, <1>2, EscrowAssumption DEF Init, TypeOK
<1>4. ClocksOrdered
  BY EscrowAssumption DEF Init, ClocksOrdered
<1>5. QED
  BY <1>3, <1>4, EscrowAssumption
  DEF Init, IInv, EscrowsConsistent, PaysOnce, PaymentsOf

\* An operation that leaves escrows and payments alone.
LEMMA KeepsEscrows ==
    ASSUME IInv, TypeOK', ClocksOrdered', UNCHANGED <<escrows, paid>>
    PROVE  IInv'
<1>1. \A e : PaymentsOf(e)' = PaymentsOf(e) /\ Due(e)' = Due(e)
  BY DEF PaymentsOf, Due
<1>2. PaysOnce' /\ EscrowsConsistent'
  BY <1>1 DEF IInv, PaysOnce, EscrowsConsistent
<1>3. QED  BY <1>2 DEF IInv

\* A new escrow has paid nothing and owes nothing.
LEMMA CreateStep ==
    ASSUME IInv, NEW s \in EscrowState, EscrowConsistent(s), s.status = "open", Create(s)
    PROVE  IInv'
<1>1. /\ Len(escrows) < MaxEscrows /\ escrows' = Append(escrows, s)
      /\ TickOp /\ UNCHANGED <<balance, paid>>
  BY DEF Create
<1>2. /\ escrows' \in Seq(EscrowState) /\ Len(escrows') = Len(escrows) + 1
      /\ Len(escrows) \in Nat
      /\ escrows'[Len(escrows) + 1] = s
      /\ \A e \in 1..Len(escrows) : escrows'[e] = escrows[e]
      /\ DOMAIN escrows' = 1..Len(escrows) + 1 /\ DOMAIN escrows = 1..Len(escrows)
  BY <1>1 DEF IInv, TypeOK
<1>3. TypeOK' /\ ClocksOrdered'
  BY <1>1, <1>2, TickOpFacts DEF IInv, TypeOK
<1>4. EscrowsConsistent'
  BY <1>1, <1>2, ConstantFacts DEF IInv, EscrowsConsistent
<1>5. PaysOnce'
  <2> SUFFICES ASSUME NEW e \in DOMAIN escrows'
               PROVE  /\ \A i, j \in PaymentsOf(e)' : i = j
                      /\ {paid'[i] : i \in PaymentsOf(e)'} = Due(e)'
    BY DEF PaysOnce
  <2>1. PaymentsOf(e)' = PaymentsOf(e) /\ paid' = paid
    BY <1>1 DEF PaymentsOf
  <2>2. CASE e \in DOMAIN escrows
    <3>1. Due(e)' = Due(e)
      BY <1>2, <2>2 DEF Due
    <3>2. QED  BY <2>1, <2>2, <3>1 DEF IInv, PaysOnce
  <2>3. CASE e = Len(escrows) + 1
    <3>1. PaymentsOf(e) = {}
      BY <1>2, <2>3 DEF PaymentsOf, IInv, EscrowsConsistent
    <3>2. Due(e)' = {}
      BY <1>2, <2>3 DEF Due
    <3>3. QED  BY <2>1, <3>1, <3>2
  <2>4. QED  BY <1>2, <2>2, <2>3
<1>6. QED  BY <1>3, <1>4, <1>5 DEF IInv

LEMMA DepositStep ==
    ASSUME IInv, Deposit
    PROVE  IInv'
<1>1. PICK e \in DOMAIN escrows, sender \in Users, amount \in Amounts :
        /\ amount > 0
        /\ Open(e)
        /\ escrows[e].deposited + amount <= escrows[e].amount
        /\ escrows' = [escrows EXCEPT
              ![e].deposited = escrows[e].deposited + amount,
              ![e].buyer = IF @ = None THEN sender ELSE @]
        /\ TickOp
        /\ UNCHANGED <<balance, paid>>
  BY DEF Deposit
<1>2. escrows \in Seq(EscrowState) /\ DOMAIN escrows = 1..Len(escrows)
  BY DEF IInv, TypeOK
<1>3. escrows[e] \in EscrowState /\ EscrowConsistent(escrows[e]) /\ amount \in Nat
  BY <1>2, ConstantFacts DEF IInv, EscrowsConsistent
<1> DEFINE s == escrows'[e]
<1>4. /\ escrows' \in Seq(EscrowState) /\ Len(escrows') = Len(escrows)
      /\ DOMAIN escrows' = DOMAIN escrows
      /\ \A f \in DOMAIN escrows : f # e => escrows'[f] = escrows[f]
      /\ EscrowConsistent(s) /\ s.status = "open"
  <2> DEFINE old == escrows[e]
             b == IF old.buyer = None THEN sender ELSE old.buyer
             new == [old EXCEPT !.deposited = old.deposited + amount, !.buyer = b]
  <2>1. b \in Addr /\ b # None /\ old.deposited + amount \in Nat
    BY <1>3, ConstantFacts DEF EscrowState
  <2>2. escrows' = [escrows EXCEPT ![e] = new]
    BY <1>1, <1>2, <1>3 DEF EscrowState
  <2> HIDE DEF b
  <2>3. /\ new \in EscrowState /\ new.status = "open"
        /\ new.deposited = old.deposited + amount /\ new.amount = old.amount
        /\ new.expiry = old.expiry /\ new.asked = old.asked /\ new.buyer = b
    BY <1>1, <1>3, <2>1 DEF EscrowState, Open
  <2> HIDE DEF new
  <2>4. s = new
    BY <1>2, <2>2
  <2>5. EscrowConsistent(new)
    BY <1>1, <1>3, <2>1, <2>3 DEF EscrowConsistent
  <2>6. QED  BY <1>2, <2>2, <2>3, <2>4, <2>5
<1>5. TypeOK' /\ ClocksOrdered'
  BY <1>1, <1>4, TickOpFacts DEF IInv, TypeOK
<1>6. EscrowsConsistent'
  BY <1>1, <1>4 DEF IInv, EscrowsConsistent
<1>7. PaysOnce'
  <2> SUFFICES ASSUME NEW f \in DOMAIN escrows
               PROVE  /\ \A i, j \in PaymentsOf(f)' : i = j
                      /\ {paid'[i] : i \in PaymentsOf(f)'} = Due(f)'
    BY <1>4 DEF PaysOnce
  <2>1. PaymentsOf(f)' = PaymentsOf(f) /\ paid' = paid
    BY <1>1 DEF PaymentsOf
  <2>2. Due(f)' = Due(f)
    <3>1. CASE f = e
      BY <1>1, <1>4, <3>1 DEF Due, Open
    <3>2. CASE f # e
      BY <1>4, <3>2 DEF Due
    <3>3. QED  BY <3>1, <3>2
  <2>3. QED  BY <2>1, <2>2 DEF IInv, PaysOnce
<1>8. QED  BY <1>5, <1>6, <1>7 DEF IInv

LEMMA AppendFacts ==
    ASSUME NEW S, NEW s \in Seq(S), NEW x \in S
    PROVE  /\ DOMAIN Append(s, x) = 1..Len(s) + 1
           /\ Append(s, x)[Len(s) + 1] = x
           /\ \A i \in 1..Len(s) : Append(s, x)[i] = s[i]
OBVIOUS

\* What the invariant says of one escrow.
LEMMA EscrowFacts ==
    ASSUME IInv, NEW e \in DOMAIN escrows
    PROVE  /\ escrows \in Seq(EscrowState) /\ DOMAIN escrows = 1..Len(escrows)
           /\ e \in EscrowAddr /\ e \in Addr
           /\ escrows[e] \in EscrowState /\ EscrowConsistent(escrows[e])
           /\ escrows[e].deposited \in Nat /\ escrows[e].amount \in Nat
           /\ escrows[e].seller \in Addr /\ escrows[e].buyer \in Addr \cup {None}
           /\ escrows[e].deposited > 0 => escrows[e].buyer \in Addr
           /\ escrows[e].status \in Status
<1>1. escrows \in Seq(EscrowState) /\ DOMAIN escrows = 1..Len(escrows)
  BY DEF IInv, TypeOK
<1>2. escrows[e] \in EscrowState /\ EscrowConsistent(escrows[e])
  BY <1>1 DEF IInv, EscrowsConsistent
<1>3. e \in EscrowAddr /\ e \in Addr
  BY <1>1, ConstantFacts DEF IInv, EscrowsConsistent, EscrowAddr, Addr
<1>4. QED  BY <1>1, <1>2, <1>3 DEF EscrowState, EscrowConsistent

\* Closing an escrow: its status and the payment it is due change together,
\* and no other escrow's do.
LEMMA CloseStep ==
    ASSUME IInv, NEW e \in DOMAIN escrows, NEW status \in {"released", "refunded"},
           Open(e), TickOp, TypeOK',
           escrows' = [escrows EXCEPT ![e].status = status],
           status = "released" => escrows[e].deposited = escrows[e].amount,
           LET to == IF status = "released" THEN escrows[e].seller ELSE escrows[e].buyer
               p == [from |-> e, to |-> to, amount |-> escrows[e].deposited]
           IN  \/ escrows[e].deposited > 0 /\ paid' = Append(paid, p)
               \/ escrows[e].deposited = 0 /\ status = "refunded" /\ paid' = paid
    PROVE  IInv'
<1> DEFINE to == IF status = "released" THEN escrows[e].seller ELSE escrows[e].buyer
           p == [from |-> e, to |-> to, amount |-> escrows[e].deposited]
           d == escrows[e].deposited
<1>1. /\ escrows \in Seq(EscrowState) /\ DOMAIN escrows = 1..Len(escrows)
      /\ escrows[e] \in EscrowState /\ EscrowConsistent(escrows[e]) /\ d \in Nat
      /\ paid \in Seq([from : EscrowAddr, to : Addr, amount : Nat])
      /\ Len(paid) \in Nat /\ DOMAIN paid = 1..Len(paid)
  BY EscrowFacts DEF IInv, TypeOK
<1>2. /\ escrows' = [escrows EXCEPT ![e] = [escrows[e] EXCEPT !.status = status]]
      /\ DOMAIN escrows' = DOMAIN escrows /\ Len(escrows') = Len(escrows)
      /\ \A f \in DOMAIN escrows : f # e => escrows'[f] = escrows[f]
      /\ escrows'[e].status = status
      /\ escrows'[e].deposited = escrows[e].deposited
      /\ escrows'[e].amount = escrows[e].amount
      /\ escrows'[e].buyer = escrows[e].buyer
      /\ escrows'[e].seller = escrows[e].seller
      /\ escrows'[e].expiry = escrows[e].expiry
      /\ escrows'[e].asked = escrows[e].asked
  BY <1>1 DEF EscrowState
<1>3. ClocksOrdered'
  BY TickOpFacts DEF IInv
<1>4. \A f \in DOMAIN escrows : EscrowConsistent(escrows'[f])
  BY <1>1, <1>2 DEF EscrowConsistent, IInv, EscrowsConsistent
<1>5. PaymentsOf(e) = {}
  <2>1. Due(e) = {}
    BY DEF Due, Open
  <2>2. {paid[i] : i \in PaymentsOf(e)} = {}
    BY <2>1 DEF IInv, PaysOnce
  <2>3. ASSUME NEW i \in PaymentsOf(e) PROVE FALSE
    <3>1. paid[i] \in {paid[j] : j \in PaymentsOf(e)}
      OBVIOUS
    <3>2. QED  BY <2>2, <3>1
  <2>4. QED  BY <2>3
<1>6. ASSUME NEW f \in DOMAIN escrows, f # e
      PROVE  Due(f)' = Due(f)
  BY <1>2, <1>6 DEF Due
<1>7. CASE d > 0 /\ paid' = Append(paid, p)
  <2>1. /\ DOMAIN paid' = 1..Len(paid) + 1
        /\ paid'[Len(paid) + 1] = p
        /\ \A i \in 1..Len(paid) : paid'[i] = paid[i]
    <3>1. p \in [from : EscrowAddr, to : Addr, amount : Nat]
      BY <1>7, EscrowFacts
    <3>2. paid' = Append(paid, p)
      BY <1>7
    <3>3. paid \in Seq([from : EscrowAddr, to : Addr, amount : Nat])
      BY <1>1
    <3> HIDE DEF p
    <3>4. QED  BY <3>1, <3>2, <3>3, AppendFacts
  <2>2. p.from = e
    OBVIOUS
  <2>3. PaymentsOf(e)' = {Len(paid) + 1}
    BY <1>1, <1>5, <2>1, <2>2 DEF PaymentsOf
  <2>4. Due(e)' = {p}
    <3>1. CASE status = "released"
      BY <1>2, <3>1 DEF Due
    <3>2. CASE status = "refunded"
      <4>1. escrows'[e].status = "refunded"
        BY <1>2, <3>2
      <4>2. escrows'[e].deposited # 0
        <5>1. d \in Nat /\ d > 0
          BY <1>1, <1>7
        <5>2. escrows'[e].deposited = d
          BY <1>2
        <5> HIDE DEF d
        <5>3. QED  BY <5>1, <5>2
      <4>3. p = [from |-> e, to |-> escrows'[e].buyer,
                 amount |-> escrows'[e].deposited]
        <5>1. to = escrows'[e].buyer
          BY <1>2, <3>2
        <5>2. escrows'[e].deposited = escrows[e].deposited
          BY <1>2
        <5> HIDE DEF to
        <5>3. QED  BY <5>1, <5>2
      <4> HIDE DEF p
      <4>4. QED  BY <4>1, <4>2, <4>3 DEF Due
    <3>3. QED  BY <3>1, <3>2
  <2>5. /\ \A i, j \in PaymentsOf(e)' : i = j
        /\ {paid'[i] : i \in PaymentsOf(e)'} = Due(e)'
    BY <2>1, <2>3, <2>4
  <2>6. ASSUME NEW f \in DOMAIN escrows, f # e
        PROVE  /\ \A i, j \in PaymentsOf(f)' : i = j
               /\ {paid'[i] : i \in PaymentsOf(f)'} = Due(f)'
    <3>1. PaymentsOf(f)' = PaymentsOf(f)
      BY <1>1, <2>1, <2>2, <2>6 DEF PaymentsOf
    <3>2. \A i \in PaymentsOf(f) : paid'[i] = paid[i]
      BY <1>1, <2>1 DEF PaymentsOf
    <3>3. {paid'[i] : i \in PaymentsOf(f)'} = {paid[i] : i \in PaymentsOf(f)}
      BY <3>1, <3>2
    <3>4. QED  BY <1>6, <2>6, <3>1, <3>3 DEF IInv, PaysOnce
  <2>7. PaysOnce'
    BY <1>2, <2>5, <2>6 DEF PaysOnce
  <2>8. EscrowsConsistent'
    <3>1. ASSUME NEW i \in DOMAIN paid' PROVE paid'[i].from \in DOMAIN escrows
      <4>1. i = Len(paid) + 1 \/ i \in DOMAIN paid
        BY <1>1, <2>1
      <4>2. QED  BY <1>1, <2>1, <2>2, <4>1 DEF EscrowsConsistent, IInv
    <3>2. QED  BY <1>2, <1>4, <3>1 DEF EscrowsConsistent, IInv
  <2>9. QED  BY <1>3, <2>7, <2>8 DEF IInv
<1>8. CASE d = 0 /\ status = "refunded" /\ paid' = paid
  <2>1. \A f : PaymentsOf(f)' = PaymentsOf(f)
    BY <1>8 DEF PaymentsOf
  <2>2. Due(e)' = {}
    BY <1>2, <1>8 DEF Due
  <2>3. PaysOnce'
    BY <1>2, <1>5, <1>6, <1>8, <2>1, <2>2 DEF PaysOnce, IInv
  <2>4. EscrowsConsistent'
    BY <1>2, <1>4, <1>8 DEF EscrowsConsistent, IInv
  <2>5. QED  BY <1>3, <2>3, <2>4 DEF IInv
<1>9. QED  BY <1>7, <1>8

\* What a payment does to the balances and to the list of payments.
LEMMA PayType ==
    ASSUME IInv, NEW e \in DOMAIN escrows, NEW to \in Addr, Pay(e, to)
    PROVE  /\ balance' \in [Addr -> 0..MaxUint128]
           /\ paid' \in Seq([from : EscrowAddr, to : Addr, amount : Nat])
           /\ escrows[e].deposited > 0
           /\ paid' = Append(paid, [from |-> e, to |-> to, amount |-> escrows[e].deposited])
<1>1. e \in EscrowAddr /\ e \in Addr /\ escrows[e].deposited \in Nat
  BY EscrowFacts
<1>2. CanTransfer(balance, e, to, escrows[e].deposited)
  BY DEF Pay
<1>3. balance' \in [Addr -> 0..MaxUint128]
  BY <1>1, <1>2, MovedType DEF Pay, IInv, TypeOK
<1>4. QED  BY <1>1, <1>2, <1>3 DEF Pay, CanTransfer, IInv, TypeOK

\* The escrows keep their type when a status changes.
LEMMA StatusType ==
    ASSUME IInv, NEW e \in DOMAIN escrows, NEW status \in Status,
           escrows' = [escrows EXCEPT ![e].status = status]
    PROVE  escrows' \in Seq(EscrowState)
<1>1. /\ escrows \in Seq(EscrowState) /\ escrows[e] \in EscrowState
      /\ DOMAIN escrows = 1..Len(escrows)
  BY DEF IInv, TypeOK
<1>2. [escrows[e] EXCEPT !.status = status] \in EscrowState
  BY <1>1 DEF EscrowState
<1>3. QED  BY <1>1, <1>2

LEMMA ApproveStep ==
    ASSUME IInv, Approve
    PROVE  IInv'
<1>1. PICK e \in DOMAIN escrows, sender \in Users :
        /\ MayApprove(e, sender)
        /\ escrows' = [escrows EXCEPT ![e].status = "released"]
        /\ Pay(e, escrows[e].seller)
        /\ TickOp
  BY DEF Approve
<1>2. /\ escrows[e] \in EscrowState /\ EscrowConsistent(escrows[e])
      /\ escrows[e].seller \in Addr
      /\ escrows[e].deposited \in Nat /\ escrows[e].amount \in Nat
  BY EscrowFacts
<1>3. Open(e) /\ escrows[e].deposited = escrows[e].amount
  BY <1>1, <1>2 DEF MayApprove, EscrowConsistent
<1>4. TypeOK'
  BY <1>1, <1>2, PayType, StatusType, TickOpFacts DEF TypeOK, IInv, Status
<1>5. /\ escrows[e].deposited > 0
      /\ paid' = Append(paid, [from |-> e, to |-> escrows[e].seller,
                               amount |-> escrows[e].deposited])
  BY <1>1, <1>2, PayType
<1>6. QED  BY <1>1, <1>3, <1>4, <1>5, CloseStep

LEMMA RefundStep ==
    ASSUME IInv, Refund
    PROVE  IInv'
<1>1. PICK e \in DOMAIN escrows, sender \in Users :
        /\ MayRefund(e, sender)
        /\ escrows' = [escrows EXCEPT ![e].status = "refunded"]
        /\ IF escrows[e].buyer = None \/ escrows[e].deposited = 0
           THEN UNCHANGED <<balance, paid>>
           ELSE Pay(e, escrows[e].buyer)
        /\ TickOp
  BY DEF Refund
<1>2. /\ escrows[e] \in EscrowState /\ EscrowConsistent(escrows[e])
      /\ escrows[e].buyer \in Addr \cup {None} /\ escrows[e].deposited \in Nat
  BY EscrowFacts
<1>3. Open(e)
  BY <1>1 DEF MayRefund
<1>4. CASE escrows[e].deposited = 0
  <2>1. paid' = paid /\ balance' = balance
    BY <1>1, <1>4
  <2>2. TypeOK'
    BY <1>1, <2>1, StatusType, TickOpFacts DEF TypeOK, IInv, Status
  <2>3. QED  BY <1>1, <1>3, <1>4, <2>1, <2>2, CloseStep
<1>5. CASE escrows[e].deposited # 0
  <2>1. escrows[e].buyer \in Addr /\ Pay(e, escrows[e].buyer)
    BY <1>1, <1>2, <1>5 DEF EscrowConsistent
  <2>2. TypeOK'
    BY <1>1, <2>1, PayType, StatusType, TickOpFacts DEF TypeOK, IInv, Status
  <2>3. /\ escrows[e].deposited > 0
        /\ paid' = Append(paid, [from |-> e, to |-> escrows[e].buyer,
                                 amount |-> escrows[e].deposited])
    BY <2>1, PayType
  <2>4. QED  BY <1>1, <1>3, <2>2, <2>3, CloseStep
<1>6. QED  BY <1>4, <1>5

LEMMA NextInv ==
    ASSUME IInv, [Next]_vars
    PROVE  IInv' /\ (UNCHANGED vars \/ setBack \/ blockTime' >= blockTime)
<1>1. CASE UNCHANGED vars
  BY <1>1, KeepsEscrows DEF IInv, TypeOK, ClocksOrdered, vars
<1>2. CASE Pass \/ SetBack
  <2>1. now' \in 0..MaxNow
    BY <1>2, EscrowAssumption DEF Pass, SetBack, IInv, TypeOK
  <2>2. setBack' \in BOOLEAN
    BY <1>2, Zenon DEF Pass, SetBack, IInv, TypeOK
  <2>3. UNCHANGED <<balance, escrows, blockTime, savedTime, paid>>
    BY <1>2 DEF Pass, SetBack
  <2>4. TypeOK' /\ blockTime' >= blockTime
    BY <2>1, <2>2, <2>3, EscrowAssumption DEF IInv, TypeOK
  <2>5. ClocksOrdered'
    <3>1. CASE setBack'
      BY <3>1 DEF ClocksOrdered
    <3>2. CASE ~setBack'
      <4>1. Pass /\ ~setBack
        BY <1>2, <3>2 DEF Pass, SetBack
      <4>2. QED  BY <4>1, EscrowAssumption DEF Pass, IInv, TypeOK, ClocksOrdered
    <3>3. QED  BY <3>1, <3>2
  <2>6. QED  BY <2>4, <2>5, <2>3, KeepsEscrows
<1>3. CASE Restart
  <2>1. TypeOK' /\ UNCHANGED <<escrows, paid>>
    BY <1>3 DEF Restart, IInv, TypeOK
  <2>2. ClocksOrdered' /\ (setBack \/ blockTime' >= blockTime)
    BY <1>3, EscrowAssumption DEF Restart, IInv, TypeOK, ClocksOrdered
  <2>3. QED  BY <2>1, <2>2, KeepsEscrows
<1>4. ASSUME TickOp PROVE setBack \/ blockTime' >= blockTime
  BY <1>4, TickOpFacts DEF IInv
<1>5. CASE Transfer
  <2>1. PICK from \in Users, to \in Addr, amount \in Amounts :
          /\ CanTransfer(balance, from, to, amount)
          /\ balance' = Moved(balance, from, to, amount)
          /\ TickOp /\ UNCHANGED <<escrows, paid>>
    BY <1>5 DEF Transfer
  <2>2. from \in Addr /\ amount \in Nat
    BY ConstantFacts
  <2>3. balance' \in [Addr -> 0..MaxUint128]
    BY <2>1, <2>2, MovedType DEF IInv, TypeOK
  <2>4. TypeOK' /\ ClocksOrdered'
    BY <2>1, <2>3, TickOpFacts DEF IInv, TypeOK
  <2>5. QED  BY <1>4, <2>1, <2>4, KeepsEscrows
<1>6. CASE Instantiate
  <2>1. PICK seller \in Sellers, arbiter \in Arbiters, amount \in Prices,
             seconds \in Seconds \cup {None}, code \in BOOLEAN :
          Create(NewEscrow(seller, arbiter, amount, seconds, code))
    BY <1>6 DEF Instantiate
  <2>2. QED  BY <1>4, <2>1, NewEscrowFacts, CreateStep DEF IInv, Create
<1>7. CASE CloneEscrow
  <2>1. PICK seller \in Sellers, arbiter \in Arbiters, amount \in Prices :
          Create(NewEscrow(seller, arbiter, amount, None, TRUE))
    BY <1>7 DEF CloneEscrow
  <2> DEFINE s == NewEscrow(seller, arbiter, amount, None, TRUE)
  <2>2. s \in EscrowState /\ EscrowConsistent(s) /\ s.status = "open"
    BY NewEscrowFacts DEF IInv
  <2>3. QED  BY <1>4, <2>1, <2>2, CreateStep DEF Create
<1>8. CASE Deposit
  BY <1>4, <1>8, DepositStep DEF Deposit
<1>9. CASE Approve
  BY <1>4, <1>9, ApproveStep DEF Approve
<1>10. CASE Refund
  BY <1>4, <1>10, RefundStep DEF Refund
<1>11. CASE OtherOp
  BY <1>4, <1>11, KeepsEscrows, TickOpFacts DEF OtherOp, IInv, TypeOK
<1>12. QED
  BY <1>1, <1>2, <1>3, <1>5, <1>6, <1>7, <1>8, <1>9, <1>10, <1>11 DEF Next

LEMMA Inductive == Spec => []IInv
<1>1. Init => IInv
  BY InitInv
<1>2. IInv /\ [Next]_vars => IInv'
  BY NextInv
<1>3. QED  BY <1>1, <1>2, PTL DEF Spec

-----------------------------------------------------------------------------
(***************************************************************************)
(* The tokens.                                                             *)
(***************************************************************************)
LEMMA AccountsFinite == IsFiniteSet(Addr) /\ Users \in SUBSET Addr /\ IsFiniteSet(Users)
<1>1. IsFiniteSet(Users) /\ IsFiniteSet(1..MaxEscrows)
  BY EscrowAssumption, FS_Interval
<1>2. QED  BY <1>1, FS_Union DEF Addr, EscrowAddr

\* A transfer that is carried out moves tokens and makes or burns none.
LEMMA MovedTotal ==
    ASSUME NEW b \in [Addr -> 0..MaxUint128], NEW from \in Addr, NEW to \in Addr,
           NEW amount \in Nat, b[from] >= amount
    PROVE  /\ Moved(b, from, to, amount) \in [Addr -> Nat]
           /\ Total(Moved(b, from, to, amount)) = Total(b)
<1> DEFINE d == Moved(b, from, to, amount)
<1>1. b \in [Addr -> Nat] /\ amount <= b[from]
  BY EscrowAssumption
<1>2. Payment(Addr, b, d, from, to, amount)
  BY <1>1 DEF Moved, Payment
<1> HIDE DEF d
<1>3. Total(d) = Total(b)
  BY <1>2, AccountsFinite, TotalPayment
<1>4. QED  BY <1>2, <1>3 DEF d, Payment

LEMMA InitTokens == Init => TokensConserved
<1> SUFFICES ASSUME Init PROVE TokensConserved
  OBVIOUS
<1>1. balance = [a \in Addr |-> IF a \in Users THEN Supply ELSE 0] /\ Supply \in Nat
  BY EscrowAssumption DEF Init
<1>2. QED  BY <1>1, AccountsFinite, TotalConstant DEF TokensConserved

LEMMA NextTokens ==
    ASSUME IInv, TokensConserved, [Next]_vars
    PROVE  TokensConserved'
<1>1. balance \in [Addr -> 0..MaxUint128]
  BY DEF IInv, TypeOK
<1>2. CASE UNCHANGED balance
  BY <1>2 DEF TokensConserved
<1>3. ASSUME NEW from \in Addr, NEW to \in Addr, NEW amount \in Nat,
             CanTransfer(balance, from, to, amount),
             balance' = Moved(balance, from, to, amount)
      PROVE  TokensConserved'
  BY <1>1, <1>3, MovedTotal DEF CanTransfer, TokensConserved
<1>4. ASSUME NEW e \in DOMAIN escrows, NEW to \in Addr, Pay(e, to)
      PROVE  TokensConserved'
  <2>1. e \in Addr /\ escrows[e].deposited \in Nat
    BY EscrowFacts
  <2>2. QED  BY <1>3, <1>4, <2>1 DEF Pay
<1>5. CASE Transfer
  <2>1. PICK from \in Users, to \in Addr, amount \in Amounts :
          /\ CanTransfer(balance, from, to, amount)
          /\ balance' = Moved(balance, from, to, amount)
    BY <1>5 DEF Transfer
  <2>2. from \in Addr /\ amount \in Nat
    BY ConstantFacts
  <2>3. QED  BY <1>3, <2>1, <2>2
<1>6. CASE Approve
  <2>1. PICK e \in DOMAIN escrows : Pay(e, escrows[e].seller)
    BY <1>6 DEF Approve
  <2>2. escrows[e].seller \in Addr
    BY EscrowFacts
  <2>3. QED  BY <1>4, <2>1, <2>2
<1>7. CASE Refund
  <2>1. PICK e \in DOMAIN escrows :
          \/ UNCHANGED balance
          \/ escrows[e].buyer # None /\ Pay(e, escrows[e].buyer)
    BY <1>7 DEF Refund
  <2>2. escrows[e].buyer \in Addr \cup {None}
    BY EscrowFacts
  <2>3. QED  BY <1>2, <1>4, <2>1, <2>2
<1>8. CASE Pass \/ SetBack \/ Restart \/ Instantiate \/ CloneEscrow \/ Deposit \/ OtherOp
  BY <1>2, <1>8 DEF Pass, SetBack, Restart, Instantiate, CloneEscrow, Deposit, OtherOp, Create
<1>9. QED  BY <1>2, <1>5, <1>6, <1>7, <1>8 DEF Next, vars

-----------------------------------------------------------------------------
(***************************************************************************)
(* The theorems.                                                           *)
(***************************************************************************)

\* Token balances stay Uint128 values and the clocks stay within the wall
\* clock, whatever the contracts are asked to do (execute_transfer, tickOp).
THEOREM TypeCorrect == Spec => []TypeOK
<1>1. IInv => TypeOK
  BY DEF IInv
<1>2. QED  BY <1>1, Inductive, PTL

\* Each escrow pays exactly what its status says and never twice, for any
\* number of escrows, clones, partial deposits and callers (execute_approve,
\* execute_refund and the sub-message they send).
THEOREM EscrowsPayOnce == Spec => []PaysOnce
<1>1. IInv => PaysOnce
  BY DEF IInv
<1>2. QED  BY <1>1, Inductive, PTL

\* No value of expiry_seconds lets anybody but the arbiter take a refund
\* before that many seconds of the block clock (instantiate, execute_refund).
THEOREM ExpiriesHonoured == Spec => []ExpiryHonoured
<1>1. IInv => ExpiryHonoured
  BY DEF IInv, TypeOK, EscrowsConsistent, EscrowConsistent, ExpiryHonoured, MayRefund
<1>2. QED  BY <1>1, Inductive, PTL

\* The escrows and the users together always hold the tokens there were at
\* the start, for any number of transfers, self-transfers and payments
\* (execute_transfer and the sub-messages that reach it).
THEOREM TokensNeverLost == Spec => []TokensConserved
<1>1. IInv /\ TokensConserved /\ [Next]_vars => TokensConserved'
  BY NextTokens
<1>2. QED  BY <1>1, InitTokens, Inductive, PTL DEF Spec

\* The checked addition of execute_transfer can never be what fails a
\* transfer: an amount that the sender has fits the recipient's Uint128, so
\* no escrow is stuck because the account it owes is full.
THEOREM RecipientsNeverFull ==
    Spec => [](\A from, to \in Addr, amount \in Nat \ {0} :
                 balance[from] >= amount => CanTransfer(balance, from, to, amount))
<1>1. ASSUME IInv, TokensConserved, NEW from \in Addr, NEW to \in Addr,
             NEW amount \in Nat \ {0}, balance[from] >= amount
      PROVE  CanTransfer(balance, from, to, amount)
  <2> DEFINE m == Moved(balance, from, to, amount)
  <2>1. m \in [Addr -> Nat] /\ Total(m) = Total(balance)
    BY <1>1, MovedTotal DEF IInv, TypeOK
  <2> HIDE DEF m
  <2>2. m \in [Addr -> Int] /\ m[to] \in Nat
    BY <2>1
  <2>3. PICK n \in Nat : Total(m) = n + m[to]
    BY <2>2, AccountsFinite, TotalWithout
  <2>4. Total(m) <= MaxUint128 /\ MaxUint128 \in Nat
    BY <1>1, <2>1, EscrowAssumption DEF TokensConserved
  <2>5. m[to] <= MaxUint128
    BY <2>2, <2>3, <2>4
  <2>6. QED  BY <1>1, <2>5 DEF CanTransfer, m
<1>2. IInv /\ TokensConserved =>
        \A from, to \in Addr, amount \in Nat \ {0} :
          balance[from] >= amount => CanTransfer(balance, from, to, amount)
  BY <1>1
<1>3. QED  BY <1>2, TokensNeverLost, Inductive, PTL

\* Only a wall clock that is set back takes the block time of transactions
\* back: no operation and no restart of the node does, for any clock
\* readings (TickOp, tickOp, restore).
THEOREM BlockTimeFollowsClock == Spec => BlockTimeMonotone
<1>1. IInv /\ [Next]_vars => [setBack \/ blockTime' >= blockTime]_vars
  BY NextInv
<1>2. QED  BY <1>1, Inductive, PTL DEF Spec, BlockTimeMonotone
=============================================================================
