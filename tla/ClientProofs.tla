---------------------------- MODULE ClientProofs ----------------------------
(***************************************************************************)
(* Proofs about the command-line client and the node it talks to, for any  *)
(* number of clients, commands, codes, spellings of the address and runs.  *)
(***************************************************************************)
EXTENDS Client, TLAPS

-----------------------------------------------------------------------------
(***************************************************************************)
(* The inductive invariants: TInv; with it NodeInv; and on these FetchInv  *)
(* and RunInv.                                                             *)
(***************************************************************************)
\* A program that runs has its variables.
Running(c) == pc[c] # "idle"
TInv == TypeOK /\ \A c \in Clients : Running(c) => loc[c] \in Locals

\* The memory as it is without the transaction in flight.
Current == IF inflight = Nil THEN mem ELSE inflight.snap

\* A transaction in flight is one ahead.
FlightInv ==
    inflight # Nil =>
        /\ mem.nonce = inflight.snap.nonce + 1
        /\ inflight.req.nonce = inflight.snap.nonce

\* In the life of one process nonces are on record in order and without gaps;
\* without a rewinding restart the nonce is the place in the record.
RecordInv ==
    /\ \A i \in booted + 1..Len(log) : log[i].nonce = Current.nonce - (Len(log) + 1 - i)
    /\ rewound \/ /\ Current.nonce = Len(log)
                  /\ \A i \in 1..Len(log) : log[i].nonce = i - 1

\* What the rows have right.  A nonce that is not astray is the current one,
\* in the last row and in every row a faucet has yet to write, and no faucet
\* is served beside a transaction.  When nothing is astray, the balance is
\* the current one, or that of the only faucet being served.
RowsInv ==
    /\ Current.codes = codes
    /\ "nonce" \notin astray =>
        /\ Restored(rows, codes).nonce = Current.nonce
        /\ inflight = Nil \/ faucets = {}
        /\ \A f \in faucets : f.nonce # Nil => f.nonce = Current.nonce
    /\ astray = {} =>
        /\ faucets = {} => Restored(rows, codes).bal = Current.bal
        /\ \A f \in faucets : faucets = {f} /\ mem.bal = f.req.amount

NodeInv == FlightInv /\ RecordInv /\ RowsInv

\* What a command that asked for the nonce remembers of the record.
FetchInv ==
    /\ FetchedNonceNear
    /\ \A c \in Clients :
        pc[c] = "fetch" /\ loc[c].flagNonce = Nil => loc[c].seen <= Len(log)

\* The requests that may still be answered: those that are not in flight, and
\* all.
Others == reqs \cup {f.req : f \in faucets}
Pending == Others \cup (IF inflight = Nil THEN {} ELSE {inflight.req})

\* Runs are numbered: no two programs, no program and no report share one.
RunsDistinct ==
    /\ \A c \in Clients : Running(c) => loc[c].run <= runs
    /\ \A r \in Pending : r.run <= runs
    /\ \A i \in 1..Len(log) : log[i].run <= runs
    /\ \A p \in reports : p.run <= runs
    /\ \A c, d \in Clients :
        Running(c) /\ Running(d) /\ loc[c].run = loc[d].run => c = d
    /\ \A p \in reports, c \in Clients : Running(c) => loc[c].run # p.run

\* A transaction is pending or on record, and only once.
OncePosted ==
    /\ inflight # Nil => inflight.req \notin Others
    /\ \A r, s \in Pending : r.run = s.run /\ r.step = s.step => r = s
    /\ \A r \in Pending, i \in 1..Len(log) :
        ~(r.run = log[i].run /\ r.step = log[i].step)
    /\ \A i, j \in 1..Len(log) :
        log[i].run = log[j].run /\ log[i].step = log[j].step => i = j

\* What a running program has posted.
PostedBy(c) ==
    /\ pc[c] = "fetch" =>
        /\ loc[c].step = 1 /\ loc[c].cmd # "faucet"
        /\ \A r \in Pending : r.run # loc[c].run
        /\ \A i \in 1..Len(log) : log[i].run # loc[c].run
    /\ pc[c] = "wait" =>
        /\ loc[c].step = 2 => loc[c].cmd = "deploy"
        /\ \A r \in Pending :
            r.run = loc[c].run =>
                /\ r.step <= loc[c].step
                /\ r.step = loc[c].step => r = Body(c, loc[c])
        /\ \A i \in 1..Len(log) : log[i].run = loc[c].run => log[i].step <= loc[c].step
        /\ resp[c] = TRUE /\ resp[c] # Nil /\ loc[c].cmd # "faucet" =>
            \E i \in 1..Len(log) : log[i] = Recorded(Body(c, loc[c]))
    /\ pc[c] # "wait" => resp[c] = Nil

\* The second half of a deploy is posted when the first is on record, with
\* the nonce that follows.
HalvesInOrder ==
    \A r \in Pending :
        r.step = 2 =>
            \E i \in 1..Len(log) :
                /\ log[i].run = r.run /\ log[i].kind = "store"
                /\ log[i].code = r.code /\ log[i].nonce = r.nonce - 1

\* Nothing of a command that has reported is still pending.
ReportsFinal ==
    \A p \in reports, r \in Pending : p.cmd # "faucet" => r.run # p.run

RunInv ==
    /\ RunsDistinct
    /\ OncePosted
    /\ \A c \in Clients : PostedBy(c)
    /\ HalvesInOrder
    /\ ReportsFinal
    /\ DeployInOrder
    /\ OkMeansCommitted

-----------------------------------------------------------------------------
(***************************************************************************)
(* The operators of the model.                                             *)
(***************************************************************************)
LEMMA DeleteRowType ==
    ASSUME NEW table \in Seq(Row), NEW i \in 1..Len(table)
    PROVE  DeleteRow(table, i) \in Seq(Row)
<1>1. PICK m \in Nat : m = Len(table) - 1
  <2>1. Len(table) \in Nat /\ Len(table) - 1 \in Nat
    OBVIOUS
  <2>2. QED  BY <2>1
<1>2. \A j \in 1..m : (IF j < i THEN table[j] ELSE table[j + 1]) \in Row
  BY <1>1
<1>3. QED  BY <1>1, <1>2 DEF DeleteRow

\* INSERT OR REPLACE leaves a table of rows, and the last of them is the one
\* restore() obeys, whatever rows were there before.
LEMMA PersistRowFacts ==
    ASSUME NEW table \in Seq(Row), NEW sp \in Spellings, NEW bal \in Nat,
           NEW nonce \in Nat, NEW stored
    PROVE  /\ PersistRow(table, sp, bal, nonce) \in Seq(Row)
           /\ Restored(PersistRow(table, sp, bal, nonce), stored)
                = [bal |-> bal, nonce |-> nonce, codes |-> stored]
<1> DEFINE old == {i \in 1..Len(table) : table[i].as = sp}
           rest == IF old = {} THEN table ELSE DeleteRow(table, CHOOSE i \in old : TRUE)
           row == [as |-> sp, bal |-> bal, nonce |-> nonce]
<1>1. rest \in Seq(Row)
  <2>1. CASE old = {}
    BY <2>1
  <2>2. CASE old # {}
    <3>1. (CHOOSE i \in old : TRUE) \in old
      BY <2>2
    <3>2. QED  BY <2>2, <3>1, DeleteRowType
  <2>3. QED  BY <2>1, <2>2
<1>2. row \in Row
  BY DEF Row
<1>3. PersistRow(table, sp, bal, nonce) = Append(rest, row)
  BY DEF PersistRow
<1> HIDE DEF rest, row
<1>4. /\ Append(rest, row) \in Seq(Row)
      /\ Len(Append(rest, row)) = Len(rest) + 1
      /\ Append(rest, row)[Len(rest) + 1] = row
      /\ Append(rest, row) # <<>>
  BY <1>1, <1>2
<1>5. row.bal = bal /\ row.nonce = nonce
  BY DEF row
<1>6. QED  BY <1>3, <1>4, <1>5 DEF Restored

LEMMA RestoredType ==
    ASSUME NEW table \in Seq(Row), NEW stored \in SUBSET Codes
    PROVE  Restored(table, stored) \in State
<1>1. CASE table = <<>>
  BY <1>1 DEF Restored, State
<1>2. CASE table # <<>>
  <2>1. table[Len(table)] \in Row
    BY <1>2
  <2>2. QED  BY <1>2, <2>1 DEF Restored, State, Row
<1>3. QED  BY <1>1, <1>2

\* The body a program posts, by its command and step.
LEMMA BodyFacts ==
    ASSUME NEW c \in Clients, NEW l \in Locals
    PROVE  /\ Body(c, l) \in Request
           /\ Body(c, l).run = l.run /\ Body(c, l).step = l.step
           /\ Body(c, l).client = c /\ Body(c, l).code = l.code
           /\ l.cmd \in {"store", "instantiate", "execute"} =>
                Body(c, l).kind = l.cmd /\ Body(c, l).nonce = l.nonce
           /\ l.cmd = "deploy" /\ l.step = 1 =>
                Body(c, l).kind = "store" /\ Body(c, l).nonce = l.nonce
           /\ l.cmd = "deploy" /\ l.step = 2 =>
                Body(c, l).kind = "instantiate" /\ Body(c, l).nonce = l.nonce + 1
           /\ l.cmd = "faucet" => Body(c, l).kind = "faucet"
<1>7. /\ l.cmd \in {"store", "instantiate", "execute", "deploy", "faucet"}
      /\ l.step = 1 \/ l.step = 2
  <2>1. Commands \subseteq {"store", "instantiate", "execute", "deploy", "faucet"}
    BY ClientAssumption
  <2>2. l.cmd \in Commands /\ l.step \in 1..2
    BY DEF Locals
  <2>3. l.cmd \in {"store", "instantiate", "execute", "deploy", "faucet"}
    BY <2>1, <2>2, Zenon
  <2>4. l.step = 1 \/ l.step = 2
    BY <2>2
  <2>5. QED  BY <2>3, <2>4
<1> USE DEF Locals, Request, Kinds, SignAndMarshal, FetchChainID
<1>1. CASE l.cmd = "store"
  BY <1>1 DEF Body, CmdStore
<1>2. CASE l.cmd = "instantiate"
  BY <1>2 DEF Body, CmdInstantiate
<1>3. CASE l.cmd = "execute"
  BY <1>3 DEF Body, CmdExecute
<1>4. CASE l.cmd = "faucet"
  BY <1>4 DEF Body, CmdFaucet
<1>5. CASE l.cmd = "deploy" /\ l.step = 1
  BY <1>5 DEF Body, CmdDeploy, CmdStore
<1>6. CASE l.cmd = "deploy" /\ l.step = 2
  BY <1>6 DEF Body, CmdDeploy, CmdInstantiate
<1>8. QED  BY <1>1, <1>2, <1>3, <1>4, <1>5, <1>6, <1>7
-----------------------------------------------------------------------------
(***************************************************************************)
(* Type correctness.                                                       *)
(***************************************************************************)
LEMMA InitTInv ==
    ASSUME Init
    PROVE  TInv
<1>1. Restored(<<>>, {}) \in State
  BY DEF Restored, State
<1>2. booted \in 0..Len(log) /\ log \in Seq(Entry)
  BY DEF Init
<1>3. rewound \in BOOLEAN
  BY DEF Init
<1>4. /\ pc \in [Clients -> {"idle", "fetch", "wait"}]
      /\ loc \in [Clients -> Locals \cup {Nil}]
      /\ resp \in [Clients -> BOOLEAN \cup {Nil}]
      /\ \A c \in Clients : ~Running(c)
  BY DEF Init, Running
<1>5. /\ reqs \subseteq Request /\ inflight \in InFlight \cup {Nil} /\ mem \in State
      /\ rows \in Seq(Row) /\ codes \subseteq Codes /\ reports \subseteq Report
      /\ runs \in Nat /\ faucets \subseteq FaucetRequest
      /\ astray \subseteq {"nonce", "balance"}
  BY <1>1 DEF Init
<1>6. QED  BY <1>2, <1>3, <1>4, <1>5 DEF TInv, TypeOK

LEMMA AnswerType ==
    ASSUME TInv, NEW r \in Request, NEW ok \in BOOLEAN, Answer(r, ok)
    PROVE  resp' \in [Clients -> BOOLEAN \cup {Nil}]
BY DEF Answer, TInv, TypeOK, Request

\* A program posts with its new variables.
LEMMA PostType ==
    ASSUME TInv, NEW c \in Clients, NEW l \in Locals, Post(c, l)
    PROVE  /\ pc' \in [Clients -> {"idle", "fetch", "wait"}]
           /\ loc' \in [Clients -> Locals \cup {Nil}]
           /\ reqs' \subseteq Request
           /\ \A d \in Clients : Running(d)' => loc'[d] \in Locals
<1>1. Body(c, l) \in Request
  BY BodyFacts
<1>2. QED  BY <1>1 DEF TInv, TypeOK, Post, Goto, Running

LEMMA ExitType ==
    ASSUME TInv, NEW c \in Clients, Exit(c)
    PROVE  /\ pc' \in [Clients -> {"idle", "fetch", "wait"}]
           /\ loc' \in [Clients -> Locals \cup {Nil}]
           /\ resp' \in [Clients -> BOOLEAN \cup {Nil}]
           /\ \A d \in Clients : Running(d)' => loc'[d] \in Locals
BY DEF TInv, TypeOK, Exit, Goto, Running

\* The variables a program starts with.
StartLocals(cmd, flag, code, price, sp, amount) ==
    [run |-> runs + 1, cmd |-> cmd, step |-> 1, flagNonce |-> flag, nonce |-> 0,
     code |-> code, price |-> price, as |-> sp, amount |-> amount,
     seen |-> IF flag = Nil THEN Len(log) ELSE 0]

LEMMA LocalsRecord ==
    ASSUME NEW run \in Nat, NEW cmd \in Commands, NEW flag \in Nat \cup {Nil},
           NEW code \in Codes, NEW price \in Nat, NEW sp \in Spellings,
           NEW amount \in Nat, NEW seen \in Nat, NEW step \in 1..2, NEW nonce \in Nat
    PROVE  [run |-> run, cmd |-> cmd, step |-> step, flagNonce |-> flag,
            nonce |-> nonce, code |-> code, price |-> price, as |-> sp,
            amount |-> amount, seen |-> seen] \in Locals
BY DEF Locals

LEMMA StartLocalsType ==
    ASSUME TInv, NEW cmd \in Commands, NEW flag \in 0..MaxNonce \cup {Nil},
           NEW code \in Codes, NEW price \in GasPrices, NEW sp \in Spellings,
           NEW amount \in FaucetAmounts \cup {0}
    PROVE  StartLocals(cmd, flag, code, price, sp, amount) \in Locals
<1>1. /\ FaucetAmounts \subseteq Nat /\ GasPrices \subseteq Nat /\ MaxNonce \in Nat
  BY ClientAssumption
<1>2. runs \in Nat /\ log \in Seq(Entry)
  BY DEF TInv, TypeOK
<1>3. /\ price \in Nat /\ amount \in Nat /\ flag \in Nat \cup {Nil}
      /\ (IF flag = Nil THEN Len(log) ELSE 0) \in Nat
  BY <1>1, <1>2
<1>4. runs + 1 \in Nat /\ 1 \in 1..2 /\ 0 \in Nat
  BY <1>2
<1>5. QED  BY <1>3, <1>4, LocalsRecord DEF StartLocals

\* Start in two kinds: the faucet posts at once, the others ask the node.
LEMMA StartCases ==
    ASSUME TInv, NEW c \in Clients, Start(c)
    PROVE  \E l \in Locals :
            /\ l.run = runs + 1 /\ l.step = 1
            /\ l.flagNonce = Nil => l.seen = Len(log)
            /\ \/ l.cmd = "faucet" /\ Post(c, l)
               \/ /\ l.cmd # "faucet"
                  /\ loc' = [loc EXCEPT ![c] = l]
                  /\ Goto(c, "fetch")
                  /\ UNCHANGED reqs
<1>1. PICK cmd \in Commands, flag \in 0..MaxNonce \cup {Nil}, code \in Codes,
          price \in GasPrices, sp \in Spellings, amount \in FaucetAmounts \cup {0} :
        LET l == StartLocals(cmd, flag, code, price, sp, amount)
        IN  IF cmd = "faucet" THEN Post(c, l)
            ELSE /\ loc' = [loc EXCEPT ![c] = l]
                 /\ Goto(c, "fetch")
                 /\ UNCHANGED reqs
  <2>1. \E cmd \in Commands, flag \in 0..MaxNonce \cup {Nil}, code \in Codes,
          price \in GasPrices, sp \in Spellings, amount \in FaucetAmounts \cup {0} :
        /\ IF cmd = "faucet" THEN amount \in FaucetAmounts /\ flag = Nil
           ELSE amount = 0 /\ sp = Canonical
        /\ LET l == StartLocals(cmd, flag, code, price, sp, amount)
           IN  IF cmd = "faucet" THEN Post(c, l)
               ELSE /\ loc' = [loc EXCEPT ![c] = l]
                    /\ Goto(c, "fetch")
                    /\ UNCHANGED reqs
    BY Zenon DEF Start, StartLocals
  <2>2. QED  BY <2>1
<1> DEFINE l == StartLocals(cmd, flag, code, price, sp, amount)
<1>2. l \in Locals
  BY StartLocalsType
<1>3. /\ l.run = runs + 1 /\ l.step = 1 /\ l.cmd = cmd
      /\ l.flagNonce = Nil => l.seen = Len(log)
  BY DEF StartLocals
<1> HIDE DEF l
<1>4. QED  BY <1>1, <1>2, <1>3 DEF l

LEMMA StartType ==
    ASSUME TInv, NEW c \in Clients, Start(c)
    PROVE  TInv'
<1>1. PICK l \in Locals :
        \/ Post(c, l)
        \/ /\ loc' = [loc EXCEPT ![c] = l]
           /\ Goto(c, "fetch")
           /\ UNCHANGED reqs
  BY StartCases
<1>2. /\ pc' \in [Clients -> {"idle", "fetch", "wait"}]
      /\ loc' \in [Clients -> Locals \cup {Nil}]
      /\ reqs' \subseteq Request
      /\ \A d \in Clients : Running(d)' => loc'[d] \in Locals
  <2>1. CASE Post(c, l)
    BY <2>1, PostType
  <2>2. CASE loc' = [loc EXCEPT ![c] = l] /\ Goto(c, "fetch") /\ UNCHANGED reqs
    BY <2>2 DEF TInv, TypeOK, Goto, Running
  <2>3. QED  BY <1>1, <2>1, <2>2
<1>3. runs' \in Nat /\ UNCHANGED <<resp, node, reports>>
  BY DEF Start, TInv, TypeOK
<1>4. QED  BY <1>2, <1>3 DEF node, history, TInv, TypeOK

\* The variables of a program that got its nonce.
FetchedLocals(c) ==
    [loc[c] EXCEPT !.nonce =
        IF loc[c].flagNonce = Nil THEN mem.nonce ELSE loc[c].flagNonce]

LEMMA FetchedLocalsFacts ==
    ASSUME TInv, NEW c \in Clients, pc[c] = "fetch"
    PROVE  LET l == FetchedLocals(c) IN
           /\ l \in Locals
           /\ l.run = loc[c].run /\ l.step = loc[c].step /\ l.cmd = loc[c].cmd
           /\ l.flagNonce = loc[c].flagNonce /\ l.seen = loc[c].seen
           /\ loc[c].flagNonce = Nil => l.nonce = mem.nonce
<1>1. loc[c] \in Locals /\ mem.nonce \in Nat
  BY DEF TInv, TypeOK, Running, State
<1>2. QED  BY <1>1 DEF FetchedLocals, Locals

LEMMA GetNonceType ==
    ASSUME TInv, NEW c \in Clients, GetNonce(c)
    PROVE  TInv'
<1>1. pc[c] = "fetch" /\ Post(c, FetchedLocals(c))
      /\ UNCHANGED <<resp, node, reports, runs>>
  BY DEF GetNonce, FetchedLocals
<1>2. FetchedLocals(c) \in Locals
  BY <1>1, FetchedLocalsFacts
<1>3. QED  BY <1>1, <1>2, PostType DEF node, history, TInv, TypeOK

\* readResponse in its three cases.
LEMMA ReadResponseCases ==
    ASSUME TInv, NEW c \in Clients, ReadResponse(c)
    PROVE  /\ pc[c] = "wait" /\ resp[c] # Nil /\ loc[c] \in Locals
           /\ UNCHANGED <<node, runs>>
           /\ \/ resp[c] = FALSE /\ Exit(c) /\ UNCHANGED <<reqs, reports>>
              \/ /\ resp[c] = TRUE /\ loc[c].cmd = "deploy" /\ loc[c].step = 1
                 /\ NextStep(c)
              \/ /\ resp[c] = TRUE /\ ~(loc[c].cmd = "deploy" /\ loc[c].step = 1)
                 /\ reports' = reports \cup {Reported(c)}
                 /\ Exit(c) /\ UNCHANGED reqs
<1>1. resp[c] = TRUE \/ resp[c] = FALSE
  BY DEF TInv, TypeOK, ReadResponse
<1>2. loc[c] \in Locals
  BY DEF TInv, ReadResponse, Running
<1>3. CASE resp[c] = FALSE
  BY <1>2, <1>3 DEF ReadResponse
<1>4. CASE resp[c] = TRUE
  BY <1>2, <1>4 DEF ReadResponse
<1>5. QED  BY <1>1, <1>3, <1>4
\* The variables of a deploy that goes on to its second transaction.
SecondLocals(c) == [loc[c] EXCEPT !.step = 2]

LEMMA SecondLocalsFacts ==
    ASSUME NEW c \in Clients, loc[c] \in Locals
    PROVE  LET l == SecondLocals(c) IN
           /\ l \in Locals
           /\ l.run = loc[c].run /\ l.step = 2 /\ l.cmd = loc[c].cmd
           /\ l.flagNonce = loc[c].flagNonce /\ l.seen = loc[c].seen
           /\ l.nonce = loc[c].nonce /\ l.code = loc[c].code
BY DEF SecondLocals, Locals

LEMMA ReadResponseType ==
    ASSUME TInv, NEW c \in Clients, ReadResponse(c)
    PROVE  TInv'
<1>1. /\ pc[c] = "wait" /\ loc[c] \in Locals
      /\ UNCHANGED <<node, runs>>
  BY ReadResponseCases
<1>2. CASE Exit(c) /\ UNCHANGED <<reqs, reports>>
  BY <1>1, <1>2, ExitType DEF node, history, TInv, TypeOK
<1>3. CASE NextStep(c)
  <2>1. Post(c, SecondLocals(c)) /\ SecondLocals(c) \in Locals
    BY <1>1, <1>3, SecondLocalsFacts DEF NextStep, SecondLocals
  <2>2. resp' \in [Clients -> BOOLEAN \cup {Nil}] /\ UNCHANGED reports
    BY <1>3 DEF NextStep, TInv, TypeOK
  <2>3. QED  BY <1>1, <2>1, <2>2, PostType DEF node, history, TInv, TypeOK
<1>4. CASE reports' = reports \cup {Reported(c)} /\ Exit(c) /\ UNCHANGED reqs
  <2>1. Reported(c) \in Report
    BY <1>1 DEF Reported, Report, Locals
  <2>2. QED  BY <1>1, <1>4, <2>1, ExitType DEF node, history, TInv, TypeOK
<1>5. QED  BY <1>2, <1>3, <1>4, ReadResponseCases

\* A step of the node leaves the programs' own variables alone.
LEMMA NodeStepType ==
    ASSUME TInv, UNCHANGED <<pc, loc, reports, runs, booted, rewound>>,
           resp' \in [Clients -> BOOLEAN \cup {Nil}],
           reqs' \subseteq reqs, inflight' \in InFlight \cup {Nil}, mem' \in State,
           faucets' \subseteq FaucetRequest, astray' \subseteq {"nonce", "balance"},
           rows' \in Seq(Row), codes' \subseteq Codes, log' \in Seq(Entry),
           Len(log) <= Len(log')
    PROVE  TInv'
<1>1. booted' \in 0..Len(log')
  <2>1. Len(log) \in Nat /\ Len(log') \in Nat /\ booted \in 0..Len(log)
    BY DEF TInv, TypeOK
  <2>2. QED  BY <2>1
<1>2. QED  BY <1>1 DEF TInv, TypeOK, Running

LEMMA LenType ==
    ASSUME TInv
    PROVE  Len(log) \in Nat /\ Len(log) <= Len(log)
BY DEF TInv, TypeOK

LEMMA AstrayType ==
    ASSUME TInv
    PROVE  Settled \subseteq {"nonce", "balance"} /\ BesideFaucet \subseteq {"nonce", "balance"}
BY DEF TInv, TypeOK, Settled, BesideFaucet

LEMMA StateRecord ==
    ASSUME NEW bal \in Nat, NEW nonce \in Nat, NEW k \in SUBSET Codes
    PROVE  [bal |-> bal, nonce |-> nonce, codes |-> k] \in State
BY DEF State

LEMMA BeginType ==
    ASSUME TInv, NEW r \in reqs, Begin(r)
    PROVE  TInv'
<1>1. r \in Request /\ mem \in State /\ r.code \in Codes
  BY DEF TInv, TypeOK, Request
<1>2. inflight' \in InFlight
  BY <1>1 DEF Begin, InFlight
<1>3. mem' \in State
  <2> DEFINE k == IF r.kind = "store" THEN mem.codes \cup {r.code} ELSE mem.codes
  <2>1. k \in SUBSET Codes
    BY <1>1 DEF State
  <2> DEFINE m == [mem EXCEPT !.nonce = mem.nonce + 1]
  <2>2. mem' = [m EXCEPT !.codes = k]
    BY <1>1 DEF Begin, State
  <2>3. m \in State
    BY <1>1 DEF State
  <2> HIDE DEF k, m
  <2>4. QED  BY <2>1, <2>2, <2>3 DEF State
<1>4. QED  BY <1>2, <1>3, AstrayType, LenType, NodeStepType DEF Begin, TInv, TypeOK

LEMMA FailType ==
    ASSUME TInv, NEW r \in reqs, Fail(r)
    PROVE  TInv'
<1>1. resp' \in [Clients -> BOOLEAN \cup {Nil}]
  BY AnswerType DEF Fail, TInv, TypeOK
<1>2. QED  BY <1>1, LenType, NodeStepType DEF Fail, node, history, TInv, TypeOK

\* The fee of a failed call.
LEMMA FailChargedFacts ==
    ASSUME TInv, FailCharged
    PROVE  /\ inflight \in InFlight /\ inflight.req \in Request /\ inflight.snap \in State
           /\ mem' \in State /\ mem'.bal \in Nat /\ mem'.nonce \in Nat
           /\ mem'.nonce = inflight.snap.nonce /\ mem'.codes = inflight.snap.codes
<1>1. inflight \in InFlight /\ inflight.req \in Request /\ inflight.snap \in State
  BY DEF FailCharged, TInv, TypeOK, InFlight
<1> DEFINE m == inflight.snap
<1>2. /\ m.bal \in Nat /\ m.bal - 1 \in Nat /\ m \in State
      /\ mem' = [m EXCEPT !.bal = m.bal - 1]
  BY <1>1 DEF FailCharged, State, CanPay
<1> HIDE DEF m
<1>3. mem' \in State /\ mem'.nonce = m.nonce /\ mem'.codes = m.codes
  BY <1>2 DEF State
<1>4. QED  BY <1>1, <1>3 DEF State, m

LEMMA FailChargedType ==
    ASSUME TInv, FailCharged
    PROVE  TInv'
<1>1. resp' \in [Clients -> BOOLEAN \cup {Nil}]
  BY FailChargedFacts, AnswerType DEF FailCharged
<1>2. rows' \in Seq(Row)
  <2>1. rows \in Seq(Row)
    BY DEF TInv, TypeOK
  <2>2. PersistRow(rows, Canonical, mem'.bal, mem'.nonce) \in Seq(Row)
    <3> DEFINE b == mem'.bal
               n == mem'.nonce
    <3>1. b \in Nat /\ n \in Nat /\ Canonical \in Spellings
      BY FailChargedFacts, ClientAssumption
    <3> HIDE DEF b, n
    <3>2. PersistRow(rows, Canonical, b, n) \in Seq(Row)
      BY ONLY <2>1, <3>1, PersistRowFacts
    <3>3. QED  BY <3>2 DEF b, n
  <2>3. QED  BY <2>1, <2>2 DEF FailCharged
<1>3. astray' \subseteq {"nonce", "balance"}
  BY AstrayType DEF FailCharged, TInv, TypeOK
<1>4. QED  BY <1>1, <1>2, <1>3, FailChargedFacts, LenType, NodeStepType
           DEF FailCharged, TInv, TypeOK

LEMMA CommitType ==
    ASSUME TInv, Commit
    PROVE  TInv'
<1>1. inflight \in InFlight /\ inflight.req \in Request
  BY DEF Commit, TInv, TypeOK, InFlight
<1>2. resp' \in [Clients -> BOOLEAN \cup {Nil}]
  BY <1>1, AnswerType DEF Commit
<1>3. PICK fee \in 0..1 : fee <= mem.bal /\ mem' = [mem EXCEPT !.bal = mem.bal - fee]
  BY DEF Commit, CanPay, TInv, TypeOK, State
<1>4. mem \in State /\ mem.bal \in Nat /\ mem.bal - fee \in Nat /\ mem.codes \in SUBSET Codes
  BY <1>3 DEF TInv, TypeOK, State
<1>5. mem' \in State /\ mem'.bal \in Nat /\ mem.nonce \in Nat
  BY <1>3, <1>4 DEF State
<1>6. rows' \in Seq(Row)
  BY <1>5, PersistRowFacts, ClientAssumption DEF Commit, TInv, TypeOK
<1>7. Recorded(inflight.req) \in Entry
  BY <1>1 DEF Recorded, Entry, Request
<1>8. log' \in Seq(Entry) /\ Len(log) <= Len(log')
  <2>1. log' = Append(log, Recorded(inflight.req))
    BY DEF Commit
  <2>2. log \in Seq(Entry)
    BY DEF TInv, TypeOK
  <2>3. QED  BY <1>7, <2>1, <2>2
<1>9. QED  BY <1>2, <1>4, <1>5, <1>6, <1>8, AstrayType, NodeStepType
           DEF Commit, TInv, TypeOK

LEMMA AbortType ==
    ASSUME TInv, Abort
    PROVE  TInv'
<1>1. inflight \in InFlight /\ inflight.req \in Request /\ inflight.snap \in State
  BY DEF Abort, TInv, TypeOK, InFlight
<1>2. resp' \in [Clients -> BOOLEAN \cup {Nil}]
  BY <1>1, AnswerType DEF Abort
<1>3. QED  BY <1>1, <1>2, LenType, NodeStepType DEF Abort, history, TInv, TypeOK

LEMMA FaucetSetType ==
    ASSUME TInv, NEW r \in reqs, FaucetSet(r)
    PROVE  TInv'
<1>1. r \in Request /\ r.amount \in Nat /\ r.kind = "faucet" /\ mem \in State
  BY DEF TInv, TypeOK, Request, FaucetSet
<1>2. mem' \in State
  BY <1>1 DEF FaucetSet, State
<1>3. [req |-> r, nonce |-> Nil] \in FaucetRequest
  BY <1>1 DEF FaucetRequest
<1>4. faucets' \subseteq FaucetRequest /\ astray' \subseteq {"nonce", "balance"}
  BY <1>3 DEF FaucetSet, TInv, TypeOK
<1>5. QED  BY <1>2, <1>4, LenType, NodeStepType DEF FaucetSet, TInv, TypeOK

\* A faucet request that is being served.
LEMMA FaucetFacts ==
    ASSUME TInv, NEW f \in faucets
    PROVE  /\ f \in FaucetRequest /\ f.req \in Request /\ f.req.kind = "faucet"
           /\ f.req.amount \in Nat /\ f.req.as \in Spellings
           /\ f.nonce # Nil => f.nonce \in Nat
BY DEF TInv, TypeOK, FaucetRequest, Request

LEMMA FaucetReadType ==
    ASSUME TInv, NEW f \in faucets, FaucetRead(f)
    PROVE  TInv'
<1>1. mem.nonce \in Nat
  BY DEF TInv, TypeOK, State
<1>2. [f EXCEPT !.nonce = mem.nonce] \in FaucetRequest
  BY <1>1, FaucetFacts DEF FaucetRequest
<1>3. faucets' \subseteq FaucetRequest
  BY <1>2 DEF FaucetRead, TInv, TypeOK
<1>4. /\ UNCHANGED <<pc, loc, resp, reqs, inflight, mem, rows, codes, log, reports, runs>>
      /\ UNCHANGED <<astray, booted, rewound>>
  BY DEF FaucetRead, history
<1>5. QED  BY <1>3, <1>4, LenType, NodeStepType DEF TInv, TypeOK

LEMMA FaucetWriteType ==
    ASSUME TInv, NEW f \in faucets, FaucetWrite(f)
    PROVE  TInv'
<1>1. resp' \in [Clients -> BOOLEAN \cup {Nil}]
  BY FaucetFacts, AnswerType DEF FaucetWrite
<1>2. rows' \in Seq(Row)
  <2>1. rows \in Seq(Row)
    BY DEF TInv, TypeOK
  <2>2. PersistRow(rows, f.req.as, f.req.amount, f.nonce) \in Seq(Row)
    <3>1. f.nonce \in Nat /\ f.req.as \in Spellings /\ f.req.amount \in Nat
      BY FaucetFacts DEF FaucetWrite
    <3>2. QED  BY <2>1, <3>1, PersistRowFacts
  <2>3. QED  BY <2>1, <2>2 DEF FaucetWrite
<1>3. astray' \subseteq {"nonce", "balance"} /\ faucets' \subseteq FaucetRequest
  BY DEF FaucetWrite, TInv, TypeOK
<1>4. QED  BY <1>1, <1>2, <1>3, LenType, NodeStepType DEF FaucetWrite, TInv, TypeOK

LEMMA RestartType ==
    ASSUME TInv, Restart
    PROVE  TInv'
<1>1. mem' \in State
  BY RestoredType DEF Restart, TInv, TypeOK
<1>2. booted' \in 0..Len(log')
  BY LenType DEF Restart
<1>3. QED  BY <1>1, <1>2 DEF Restart, TInv, TypeOK, Running

LEMMA TInvStep ==
    ASSUME TInv, [Next]_vars
    PROVE  TInv'
<1>1. ASSUME NEW c \in Clients, Proceed(c) PROVE TInv'
  <2>1. CASE FetchFails(c) \/ Timeout(c)
    BY <2>1, ExitType DEF FetchFails, Timeout, node, history, TInv, TypeOK
  <2>2. QED  BY <1>1, <2>1, GetNonceType, ReadResponseType DEF Proceed
<1>2. CASE UNCHANGED vars
  BY <1>2 DEF vars, node, history, TInv, TypeOK, Running
<1>3. QED  BY <1>1, <1>2, StartType, BeginType, FailType, FailChargedType, FaucetSetType,
              FaucetReadType, FaucetWriteType, CommitType, AbortType, RestartType DEF Next

\* Every variable of the client and of the node keeps its type: a program
\* that is running has its variables, every request in the network is one a
\* command signed, and balance and nonce are never negative, also when fees
\* are charged (readResponse, DeductGasFee).
THEOREM TypeCorrect == Spec => []TypeOK
<1>1. Init => TInv
  BY InitTInv
<1>2. TInv /\ [Next]_vars => TInv'
  BY TInvStep
<1>3. TInv => TypeOK
  BY DEF TInv
<1>4. QED  BY <1>1, <1>2, <1>3, PTL DEF Spec
-----------------------------------------------------------------------------
(***************************************************************************)
(* The node: nonces, tables and memory.                                    *)
(***************************************************************************)
LEMMA RestoredFields ==
    ASSUME NEW table, NEW stored
    PROVE  Restored(table, stored).codes = stored
BY DEF Restored

\* A state is its three fields.
LEMMA StateFields ==
    ASSUME NEW s \in State
    PROVE  s = [bal |-> s.bal, nonce |-> s.nonce, codes |-> s.codes]
BY DEF State

LEMMA InitNodeInv ==
    ASSUME Init
    PROVE  NodeInv
BY DEF Init, NodeInv, FlightInv, RecordInv, RowsInv, Current, Restored

\* What the current state is made of.
LEMMA CurrentType ==
    ASSUME TInv
    PROVE  /\ Current \in State /\ Current.nonce \in Nat /\ Current.bal \in Nat
           /\ Len(log) \in Nat /\ booted \in 0..Len(log)
           /\ \A i \in 1..Len(log) : log[i].nonce \in Nat
<1>1. inflight # Nil => inflight.snap \in State
  BY DEF TInv, TypeOK, InFlight
<1>2. Current \in State
  BY <1>1 DEF Current, TInv, TypeOK
<1>3. log \in Seq(Entry) /\ Len(log) \in Nat /\ booted \in 0..Len(log)
  BY DEF TInv, TypeOK
<1>4. \A x \in Entry : x.nonce \in Nat
  BY DEF Entry
<1>5. \A i \in 1..Len(log) : log[i].nonce \in Nat
  BY <1>3, <1>4
<1>6. QED  BY <1>2, <1>3, <1>5 DEF State

\* A step that leaves the record and the current nonce alone.
LEMMA RecordKept ==
    ASSUME NodeInv, Current'.nonce = Current.nonce, UNCHANGED <<log, booted, rewound>>
    PROVE  RecordInv'
BY DEF NodeInv, RecordInv

\* Where no nonce is astray, faucets and transactions are apart.
LEMMA Apart ==
    ASSUME NodeInv, inflight # Nil, faucets # {}
    PROVE  "nonce" \in astray
BY DEF NodeInv, RowsInv

LEMMA BeginNode ==
    ASSUME TInv, NodeInv, NEW r \in reqs, Begin(r)
    PROVE  NodeInv'
<1>1. /\ inflight = Nil /\ Current = mem /\ r.nonce = mem.nonce /\ mem \in State
      /\ r \in Request
  BY DEF Begin, Current, TInv, TypeOK
<1>2. /\ inflight' # Nil /\ inflight'.snap = mem /\ inflight'.req = r
  <2>1. inflight' \in InFlight
    BY <1>1 DEF Begin, InFlight
  <2>2. QED  BY <2>1, NilAssumption DEF Begin
<1>3. mem'.nonce = mem.nonce + 1
  BY <1>1 DEF Begin, State
<1>4. Current' = Current
  BY <1>1, <1>2 DEF Current
<1>5. FlightInv'
  BY <1>1, <1>2, <1>3 DEF FlightInv
<1>6. RecordInv'
  BY <1>4, RecordKept DEF Begin
<1>7. RowsInv'
  <2>1. UNCHANGED <<rows, codes, faucets>> /\ astray' = BesideFaucet
    BY DEF Begin
  <2>2. CASE faucets = {}
    BY <1>4, <2>1, <2>2 DEF NodeInv, RowsInv, BesideFaucet
  <2>3. CASE faucets # {}
    BY <1>4, <2>1, <2>3 DEF NodeInv, RowsInv, BesideFaucet
  <2>4. QED  BY <2>2, <2>3
<1>8. QED  BY <1>5, <1>6, <1>7 DEF NodeInv

\* A row of the live memory is written, and no transaction is left in flight.
LEMMA RowWritten ==
    ASSUME TInv, NodeInv, inflight # Nil, inflight' = Nil, mem' \in State,
           rows' = PersistRow(rows, Canonical, mem'.bal, mem'.nonce),
           mem'.codes = codes', astray' = Settled, UNCHANGED faucets
    PROVE  RowsInv'
<1>1. Current' = mem'
  BY DEF Current
<1>2. /\ Restored(rows', codes').nonce = mem'.nonce
      /\ Restored(rows', codes').bal = mem'.bal
  <2>1. rows \in Seq(Row) /\ Canonical \in Spellings
    BY ClientAssumption DEF TInv, TypeOK
  <2> DEFINE b == mem'.bal
             n == mem'.nonce
             k == codes'
  <2>2. b \in Nat /\ n \in Nat /\ rows' = PersistRow(rows, Canonical, b, n)
    BY DEF State
  <2> HIDE DEF b, n, k
  <2>3. Restored(rows', k) = [bal |-> b, nonce |-> n, codes |-> k]
    BY ONLY <2>1, <2>2, PersistRowFacts
  <2>4. QED  BY <2>3 DEF b, n, k
<1>3. CASE faucets = {}
  BY <1>1, <1>2, <1>3 DEF RowsInv
<1>4. CASE faucets # {}
  BY <1>1, <1>4, Apart DEF RowsInv, Settled
<1>5. QED  BY <1>3, <1>4

LEMMA CommitNode ==
    ASSUME TInv, NodeInv, Commit
    PROVE  NodeInv'
<1>1. /\ inflight # Nil /\ inflight' = Nil /\ Current = inflight.snap
      /\ inflight.req.nonce = Current.nonce /\ mem.nonce = Current.nonce + 1
      /\ mem \in State /\ UNCHANGED <<faucets, booted, rewound>>
  BY DEF Commit, NodeInv, FlightInv, Current, TInv, TypeOK
<1>2. mem' \in State
  BY CommitType DEF TInv, TypeOK
<1>3. mem'.nonce = mem.nonce /\ mem'.codes = mem.codes
  BY <1>1 DEF Commit, State
<1>4. /\ Len(log') = Len(log) + 1
      /\ log'[Len(log) + 1].nonce = Current.nonce
      /\ \A i \in 1..Len(log) : log'[i] = log[i]
  <2> DEFINE en == Recorded(inflight.req)
  <2>1. log' = Append(log, en) /\ en.nonce = Current.nonce /\ log \in Seq(Entry)
    BY <1>1 DEF Commit, Recorded, TInv, TypeOK
  <2> HIDE DEF en
  <2>2. QED  BY <2>1
<1>5. Current' = mem' /\ Current'.nonce = Current.nonce + 1
  BY <1>1, <1>3 DEF Current
<1>6. RecordInv'
  <2>1. \A i \in booted + 1..Len(log) + 1 :
            log'[i].nonce = Current.nonce + 1 - (Len(log) + 2 - i)
    <3>1. ASSUME NEW i \in booted + 1..Len(log) + 1, i # Len(log) + 1
          PROVE  log'[i].nonce = Current.nonce + 1 - (Len(log) + 2 - i)
      <4>1. i \in booted + 1..Len(log) /\ i \in 1..Len(log)
        BY <3>1, CurrentType
      <4>2. log[i].nonce = Current.nonce - (Len(log) + 1 - i)
        BY <4>1 DEF NodeInv, RecordInv
      <4>3. QED  BY <1>4, <4>1, <4>2, CurrentType
    <3>2. ASSUME NEW i \in booted + 1..Len(log) + 1, i = Len(log) + 1
          PROVE  log'[i].nonce = Current.nonce + 1 - (Len(log) + 2 - i)
      BY <1>4, <3>2, CurrentType
    <3>3. QED  BY <3>1, <3>2
  <2>2. rewound \/ /\ Current'.nonce = Len(log) + 1
                   /\ \A i \in 1..Len(log) + 1 : log'[i].nonce = i - 1
    BY <1>4, <1>5, CurrentType DEF NodeInv, RecordInv
  <2>3. Len(log') + 1 = Len(log) + 2
    BY <1>4, CurrentType
  <2>4. \A i \in booted' + 1..Len(log') :
            log'[i].nonce = Current'.nonce - (Len(log') + 1 - i)
    <3>1. booted' = booted /\ Len(log') = Len(log) + 1
      BY <1>1, <1>4
    <3>2. ASSUME NEW i \in booted + 1..Len(log) + 1
          PROVE  log'[i].nonce = Current'.nonce - (Len(log') + 1 - i)
      <4>1. i \in Int /\ Len(log) \in Nat /\ Current.nonce \in Nat
        BY <3>2, CurrentType
      <4>2. log'[i].nonce = Current.nonce + 1 - (Len(log) + 2 - i)
        BY <2>1, <3>2
      <4>3. \A x, y : x = Current.nonce + 1 /\ y = Len(log) + 1
                => Current.nonce + 1 - (Len(log) + 2 - i) = x - (y + 1 - i)
        BY <4>1
      <4>4. QED  BY <1>5, <3>1, <4>2, <4>3
    <3>3. QED  BY <3>1, <3>2
  <2>5. rewound' \/ /\ Current'.nonce = Len(log')
                    /\ \A i \in 1..Len(log') : log'[i].nonce = i - 1
    BY <1>1, <1>4, <2>2
  <2>6. QED  BY <2>4, <2>5 DEF RecordInv
<1>7. RowsInv'
  BY <1>1, <1>2, <1>3, RowWritten DEF Commit
<1>8. QED  BY <1>1, <1>6, <1>7 DEF NodeInv, FlightInv

LEMMA FailChargedNode ==
    ASSUME TInv, NodeInv, FailCharged
    PROVE  NodeInv'
<1>1. /\ inflight # Nil /\ inflight' = Nil /\ Current = inflight.snap /\ Current' = mem'
      /\ UNCHANGED <<faucets, codes, log, booted, rewound>>
  BY DEF FailCharged, Current
<1>2. Current'.nonce = Current.nonce /\ Current'.codes = Current.codes /\ mem' \in State
  BY <1>1, FailChargedFacts
<1>3. RecordInv'
  BY <1>1, <1>2, RecordKept
<1>4. Current.codes = codes
  BY DEF NodeInv, RowsInv
<1>5. CASE /\ rows' = PersistRow(rows, Canonical, mem'.bal, mem'.nonce)
           /\ astray' = Settled
  <2>1. RowsInv'
    BY <1>1, <1>2, <1>4, <1>5, RowWritten
  <2>2. QED  BY <1>1, <1>3, <2>1 DEF NodeInv, FlightInv
<1>6. CASE rows' = rows /\ astray' = astray \cup {"balance"}
  <2>1. RowsInv'
    BY <1>1, <1>2, <1>4, <1>6 DEF NodeInv, RowsInv
  <2>2. QED  BY <1>1, <1>3, <2>1 DEF NodeInv, FlightInv
<1>7. QED  BY <1>5, <1>6 DEF FailCharged

LEMMA AbortNode ==
    ASSUME TInv, NodeInv, Abort
    PROVE  NodeInv'
<1>1. /\ inflight # Nil /\ inflight' = Nil /\ Current' = Current
      /\ UNCHANGED <<faucets, rows, codes, log, astray, booted, rewound>>
  BY DEF Abort, Current, history
<1>2. RecordInv'
  BY <1>1, RecordKept
<1>3. astray = {} => faucets = {}
  BY <1>1, Apart
<1>4. RowsInv'
  BY <1>1, <1>3 DEF NodeInv, RowsInv
<1>5. QED  BY <1>1, <1>2, <1>4 DEF NodeInv, FlightInv

LEMMA FaucetSetNode ==
    ASSUME TInv, NodeInv, NEW r \in reqs, FaucetSet(r)
    PROVE  NodeInv'
<1>1. /\ UNCHANGED <<inflight, rows, codes, log, booted, rewound>>
      /\ faucets' = faucets \cup {[req |-> r, nonce |-> Nil]}
      /\ mem \in State /\ r \in Request /\ r.amount \in Nat
  BY DEF FaucetSet, TInv, TypeOK, Request
<1>2. mem'.nonce = mem.nonce /\ mem'.codes = mem.codes /\ mem'.bal = r.amount
  BY <1>1 DEF FaucetSet, State
<1>3. Current'.nonce = Current.nonce /\ Current'.codes = Current.codes
  BY <1>1, <1>2 DEF Current
<1>4. RecordInv'
  BY <1>1, <1>3, RecordKept
<1>5. FlightInv'
  BY <1>1, <1>2 DEF NodeInv, FlightInv
<1>6. RowsInv'
  <2>1. CASE inflight # Nil
    <3>1. astray' = astray \cup {"nonce", "balance"}
      BY <2>1 DEF FaucetSet
    <3>2. QED  BY <1>1, <1>3, <3>1 DEF NodeInv, RowsInv
  <2>2. CASE inflight = Nil /\ faucets # {}
    <3>1. astray' = astray \cup {"balance"}
      BY <2>2 DEF FaucetSet
    <3>2. \A f \in faucets' : f \in faucets \/ f.nonce = Nil
      BY <1>1
    <3>3. QED  BY <1>1, <1>3, <2>2, <3>1, <3>2 DEF NodeInv, RowsInv
  <2>3. CASE inflight = Nil /\ faucets = {}
    <3>1. astray' = astray
      BY <2>3 DEF FaucetSet
    <3>2. /\ faucets' = {[req |-> r, nonce |-> Nil]}
          /\ \A f \in faucets' : f.nonce = Nil /\ f.req = r
      BY <1>1, <2>3
    <3>3. QED  BY <1>1, <1>2, <1>3, <2>3, <3>1, <3>2 DEF NodeInv, RowsInv
  <2>4. QED  BY <2>1, <2>2, <2>3
<1>7. QED  BY <1>4, <1>5, <1>6 DEF NodeInv

LEMMA FaucetReadNode ==
    ASSUME TInv, NodeInv, NEW f \in faucets, FaucetRead(f)
    PROVE  NodeInv'
<1> DEFINE g == [f EXCEPT !.nonce = mem.nonce]
<1>1. /\ UNCHANGED <<inflight, mem, rows, codes, log, astray, booted, rewound>>
      /\ faucets' = (faucets \ {f}) \cup {g}
  BY DEF FaucetRead, history
<1>2. g.req = f.req /\ g.nonce = mem.nonce
  BY FaucetFacts DEF FaucetRequest
<1> HIDE DEF g
<1>3. Current' = Current /\ RecordInv' /\ FlightInv'
  BY <1>1, RecordKept DEF Current, NodeInv, FlightInv
<1>4. "nonce" \notin astray => Current = mem
  BY Apart DEF Current
<1>5. RowsInv'
  BY <1>1, <1>2, <1>3, <1>4 DEF NodeInv, RowsInv
<1>6. QED  BY <1>3, <1>5 DEF NodeInv

LEMMA FaucetWriteNode ==
    ASSUME TInv, NodeInv, NEW f \in faucets, FaucetWrite(f)
    PROVE  NodeInv'
<1>1. /\ UNCHANGED <<inflight, mem, codes, log, booted, rewound>>
      /\ faucets' = faucets \ {f} /\ f.nonce # Nil
  BY DEF FaucetWrite
<1>2. Current' = Current /\ RecordInv' /\ FlightInv'
  BY <1>1, RecordKept DEF Current, NodeInv, FlightInv
<1>3. CASE rows' = PersistRow(rows, f.req.as, f.req.amount, f.nonce) /\ UNCHANGED astray
  <2>1. /\ Restored(rows', codes').nonce = f.nonce
        /\ Restored(rows', codes').bal = f.req.amount
    BY <1>1, <1>3, FaucetFacts, PersistRowFacts DEF TInv, TypeOK
  <2>2. "nonce" \notin astray => f.nonce = Current.nonce /\ inflight = Nil
    BY <1>1 DEF NodeInv, RowsInv
  <2>3. astray = {} => faucets' = {} /\ Current.bal = f.req.amount
    BY <1>1, <2>2 DEF NodeInv, RowsInv, Current
  <2>4. RowsInv'
    BY <1>1, <1>2, <1>3, <2>1, <2>2, <2>3 DEF NodeInv, RowsInv
  <2>5. QED  BY <1>2, <2>4 DEF NodeInv
<1>4. CASE rows' = rows /\ astray' = astray \cup {"balance"}
  <2>1. RowsInv'
    BY <1>1, <1>2, <1>4 DEF NodeInv, RowsInv
  <2>2. QED  BY <1>2, <2>1 DEF NodeInv
<1>5. QED  BY <1>3, <1>4 DEF FaucetWrite

LEMMA RestartNode ==
    ASSUME TInv, NodeInv, Restart
    PROVE  NodeInv'
<1>1. /\ inflight' = Nil /\ Current' = Restored(rows, codes) /\ faucets' = {}
      /\ astray' = {} /\ UNCHANGED <<rows, codes, log>> /\ booted' = Len(log)
      /\ rewound' = (rewound \/ "nonce" \in astray)
  BY DEF Restart, Current
<1>2. RecordInv'
  <2>1. \A i \in booted' + 1..Len(log) : FALSE
    BY <1>1, CurrentType
  <2>2. rewound' \/ (Current'.nonce = Len(log) /\ \A i \in 1..Len(log) : log[i].nonce = i - 1)
    BY <1>1 DEF NodeInv, RecordInv, RowsInv
  <2>3. QED  BY <1>1, <2>1, <2>2 DEF RecordInv
<1>3. RowsInv'
  BY <1>1, RestoredFields DEF RowsInv
<1>4. QED  BY <1>1, <1>2, <1>3 DEF NodeInv, FlightInv

LEMMA NodeInvStep ==
    ASSUME TInv, NodeInv, [Next]_vars
    PROVE  NodeInv'
<1>1. CASE UNCHANGED node
  BY <1>1 DEF node, history, NodeInv, FlightInv, RecordInv, RowsInv, Current
<1>2. ASSUME NEW c \in Clients, Start(c) \/ Proceed(c)
      PROVE  UNCHANGED node
  BY <1>2 DEF Start, Proceed, GetNonce, FetchFails, Timeout, ReadResponse
<1>3. ASSUME NEW r \in reqs, Fail(r) PROVE NodeInv'
  BY <1>1, <1>3 DEF Fail
<1>4. QED  BY <1>1, <1>2, <1>3, BeginNode, CommitNode, FailChargedNode, AbortNode,
              FaucetSetNode, FaucetReadNode, FaucetWriteNode, RestartNode
           DEF Next, vars

\* Between two transactions a restart finds codes, nonce and balance as they
\* are in memory, but for what the faucet or a lost row has left astray:
\* restore() obeys the last row, INSERT OR REPLACE makes the row of the last
\* write the last one under whatever spelling, and a row made of the live
\* memory when no faucet is served puts everything right (persistBalance,
\* handleFaucet, restore).
THEOREM AccountRestored == Spec => []RowsRestoreAccount
<1>1. Init => TInv /\ NodeInv
  BY InitTInv, InitNodeInv
<1>2. TInv /\ NodeInv /\ [Next]_vars => TInv' /\ NodeInv'
  BY TInvStep, NodeInvStep
<1>3. TInv /\ NodeInv => RowsRestoreAccount
  BY RestoredFields DEF NodeInv, RowsInv, Current, RowsRestoreAccount
<1>4. QED  BY <1>1, <1>2, <1>3, PTL DEF Spec

LEMMA CountedBack ==
    ASSUME NEW n \in Nat, NEW len \in Nat, NEW i \in 1..len, NEW j \in 1..len,
           n - (len + 1 - i) = n - (len + 1 - j)
    PROVE  i = j
OBVIOUS

\* A command repeated with the same --nonce takes effect at most once in the
\* life of a process, whatever the faucet does beside it, and once and for all
\* unless a restart took over a nonce that the faucet had left astray (the
\* nonce check, handleFaucet, restore).
THEOREM RetriesSafe == Spec => []RetryWithNonceSafe
<1>1. Init => TInv /\ NodeInv
  BY InitTInv, InitNodeInv
<1>2. TInv /\ NodeInv /\ [Next]_vars => TInv' /\ NodeInv'
  BY TInvStep, NodeInvStep
<1>3. ASSUME TInv, NodeInv PROVE RetryWithNonceSafe
  <2>1. SUFFICES ASSUME NEW i \in 1..Len(log), NEW j \in 1..Len(log), i < j,
                        log[i].nonce = log[j].nonce
                 PROVE  rewound /\ i <= booted
    BY DEF RetryWithNonceSafe
  <2>2. rewound
    BY <1>3, <2>1 DEF NodeInv, RecordInv
  <2>3. ASSUME ~(i <= booted) PROVE FALSE
    <3>1. i \in booted + 1..Len(log) /\ j \in booted + 1..Len(log)
      BY <1>3, <2>1, <2>3, CurrentType
    <3>2. /\ log[i].nonce = Current.nonce - (Len(log) + 1 - i)
          /\ log[j].nonce = Current.nonce - (Len(log) + 1 - j)
      BY <1>3, <3>1 DEF NodeInv, RecordInv
    <3>3. Len(log) \in Nat /\ Current.nonce \in Nat
      BY <1>3, CurrentType
    <3>4. i = j
      BY <2>1, <3>2, <3>3, CountedBack
    <3>5. QED  BY <2>1, <3>4
  <2>4. QED  BY <2>2, <2>3
<1>4. QED  BY <1>1, <1>2, <1>3, PTL DEF Spec
-----------------------------------------------------------------------------
(***************************************************************************)
(* The nonce a command fetched.                                            *)
(***************************************************************************)
LEMMA FetchInvStep ==
    ASSUME TInv, NodeInv, NodeInv', TInv', FetchInv, [Next]_vars
    PROVE  FetchInv'
<1>1. Len(log) \in Nat /\ (rewound \/ mem.nonce \in Len(log)..Len(log) + 1)
  <2>1. log \in Seq(Entry) /\ Len(log) \in Nat
    BY DEF TInv, TypeOK
  <2>2. rewound \/ mem.nonce = Len(log) \/ mem.nonce = Len(log) + 1
    BY DEF NodeInv, FlightInv, RecordInv, Current
  <2>3. QED  BY <2>1, <2>2
<1>2. ASSUME UNCHANGED <<pc, loc>>, rewound => rewound', Len(log') \in Nat,
             Len(log') >= Len(log)
      PROVE  FetchInv'
  <2>1. \A c \in Clients : pc[c] = "wait" \/ pc[c] = "fetch" =>
            loc[c].nonce \in Nat /\ loc[c].seen \in Nat
    BY DEF TInv, Running, Locals
  <2>2. QED  BY <1>1, <1>2, <2>1 DEF FetchInv, FetchedNonceNear
\* One program changes; its new variables are in order.
<1>3. ASSUME NEW c \in Clients, UNCHANGED <<log, rewound>>,
             \A d \in Clients : d # c => pc'[d] = pc[d] /\ loc'[d] = loc[d],
             pc'[c] = "wait" /\ loc'[c].cmd # "faucet" /\ loc'[c].flagNonce = Nil =>
                rewound \/ (loc'[c].seen <= loc'[c].nonce /\ loc'[c].nonce <= Len(log) + 1),
             pc'[c] = "fetch" /\ loc'[c].flagNonce = Nil => loc'[c].seen <= Len(log)
      PROVE  FetchInv'
  BY <1>3 DEF FetchInv, FetchedNonceNear
<1>4. ASSUME NEW c \in Clients, Start(c) PROVE FetchInv'
  <2>1. PICK l \in Locals :
            /\ l.flagNonce = Nil => l.seen = Len(log)
            /\ \/ l.cmd = "faucet" /\ Post(c, l)
               \/ loc' = [loc EXCEPT ![c] = l] /\ Goto(c, "fetch")
    BY <1>4, StartCases
  <2>2. UNCHANGED <<log, rewound>>
    BY <1>4 DEF Start, node, history
  <2>3. QED  BY <1>1, <1>3, <2>1, <2>2 DEF Post, Goto, TInv, TypeOK
<1>5. ASSUME NEW c \in Clients, GetNonce(c) PROVE FetchInv'
  <2> DEFINE l == FetchedLocals(c)
  <2>1. pc[c] = "fetch" /\ Post(c, l) /\ UNCHANGED <<log, rewound>>
    BY <1>5 DEF GetNonce, FetchedLocals, node, history
  <2>2. /\ l \in Locals /\ l.flagNonce = loc[c].flagNonce /\ l.seen = loc[c].seen
        /\ loc[c].flagNonce = Nil => l.nonce = mem.nonce
    BY <2>1, FetchedLocalsFacts
  <2> HIDE DEF l
  <2>3. l.flagNonce = Nil => l.seen <= Len(log)
    BY <2>1, <2>2 DEF FetchInv
  <2>4. l.flagNonce = Nil => rewound \/ (l.seen <= l.nonce /\ l.nonce <= Len(log) + 1)
    BY <1>1, <2>2, <2>3 DEF Locals
  <2>5. pc'[c] = "wait" /\ loc'[c] = l
        /\ \A d \in Clients : d # c => pc'[d] = pc[d] /\ loc'[d] = loc[d]
    BY <2>1 DEF Post, Goto, TInv, TypeOK
  <2>6. QED  BY <1>3, <2>1, <2>4, <2>5
<1>6. ASSUME NEW c \in Clients, Exit(c), UNCHANGED <<log, rewound>> PROVE FetchInv'
  BY <1>3, <1>6 DEF Exit, Goto, TInv, TypeOK
<1>7. ASSUME NEW c \in Clients, ReadResponse(c) PROVE FetchInv'
  <2>1. pc[c] = "wait" /\ loc[c] \in Locals /\ UNCHANGED <<log, rewound>>
        /\ (Exit(c) \/ NextStep(c))
    BY <1>7, ReadResponseCases DEF node, history
  <2>2. CASE NextStep(c)
    <3> DEFINE l == SecondLocals(c)
    <3>1. Post(c, l)
      BY <2>2 DEF NextStep, SecondLocals
    <3>2. /\ l.flagNonce = loc[c].flagNonce /\ l.seen = loc[c].seen
          /\ l.nonce = loc[c].nonce /\ l.cmd = loc[c].cmd
      BY <2>1, SecondLocalsFacts
    <3> HIDE DEF l
    <3>3. pc'[c] = "wait" /\ loc'[c] = l
          /\ \A d \in Clients : d # c => pc'[d] = pc[d] /\ loc'[d] = loc[d]
      BY <3>1 DEF Post, Goto, TInv, TypeOK
    <3>4. l.cmd # "faucet" /\ l.flagNonce = Nil =>
                rewound \/ (l.seen <= l.nonce /\ l.nonce <= Len(log) + 1)
      BY <2>1, <3>2 DEF FetchInv, FetchedNonceNear
    <3>5. QED  BY <1>3, <2>1, <3>3, <3>4
  <2>3. QED  BY <1>6, <2>1, <2>2
<1>8. ASSUME NEW c \in Clients, Proceed(c) PROVE FetchInv'
  BY <1>5, <1>6, <1>7, <1>8 DEF Proceed, FetchFails, Timeout, node, history
<1>9. CASE UNCHANGED <<pc, loc, log>> /\ (rewound => rewound')
  BY <1>1, <1>2, <1>9
<1>10. CASE Commit
  <2>1. log' = Append(log, Recorded(inflight.req)) /\ UNCHANGED <<pc, loc, rewound>>
    BY <1>10 DEF Commit
  <2>2. log \in Seq(Entry)
    BY DEF TInv, TypeOK
  <2>3. Len(log') = Len(log) + 1
    BY <2>1, <2>2
  <2>4. QED  BY <1>1, <1>2, <2>1, <2>3
<1>11. ASSUME UNCHANGED <<pc, loc, log, rewound>> PROVE FetchInv'
  BY <1>9, <1>11
<1>12. CASE UNCHANGED vars
  BY <1>11, <1>12 DEF vars, node, history
<1>13. ASSUME NEW r \in reqs, Begin(r) \/ Fail(r) \/ FaucetSet(r) PROVE FetchInv'
  BY <1>11, <1>13 DEF Begin, Fail, FaucetSet, node, history
<1>14. ASSUME NEW f \in faucets, FaucetRead(f) \/ FaucetWrite(f) PROVE FetchInv'
  BY <1>11, <1>14 DEF FaucetRead, FaucetWrite, history
<1>15. CASE FailCharged \/ Abort
  BY <1>11, <1>15 DEF FailCharged, Abort, history
<1>16. CASE Restart
  <2>1. UNCHANGED <<pc, loc, log>> /\ (rewound => rewound')
    BY <1>16 DEF Restart
  <2>2. QED  BY <1>9, <2>1
<1>17. QED  BY <1>4, <1>8, <1>10, <1>12, <1>13, <1>14, <1>15, <1>16 DEF Next

\* The nonce a command was given is at least the number of transactions on
\* record when it started and at most one ahead of the record: the memory is
\* one ahead while a transaction is in flight, and neither an abort nor a
\* restart takes the nonce back, but for one the faucet left astray
\* (handleAccount, getNonce).
THEOREM NonceNear == Spec => []FetchedNonceNear
<1>1. Init => TInv /\ NodeInv /\ FetchInv
  BY InitTInv, InitNodeInv DEF Init, FetchInv, FetchedNonceNear
<1>2. TInv /\ NodeInv /\ FetchInv /\ [Next]_vars => TInv' /\ NodeInv' /\ FetchInv'
  BY TInvStep, NodeInvStep, FetchInvStep
<1>3. FetchInv => FetchedNonceNear
  BY DEF FetchInv
<1>4. QED  BY <1>1, <1>2, <1>3, PTL DEF Spec
-----------------------------------------------------------------------------
(***************************************************************************)
(* Runs, requests and the record.                                          *)
(***************************************************************************)
\* What is pending has the type of a request.
LEMMA PendingType ==
    ASSUME TInv
    PROVE  Pending \subseteq Request
<1>1. reqs \subseteq Request /\ \A f \in faucets : f.req \in Request
  BY FaucetFacts DEF TInv, TypeOK
<1>2. inflight # Nil => inflight.req \in Request
  BY DEF TInv, TypeOK, InFlight
<1>3. QED  BY <1>1, <1>2 DEF Pending, Others

LEMMA LogType ==
    ASSUME TInv
    PROVE  /\ log \in Seq(Entry) /\ Len(log) \in Nat
           /\ \A i \in 1..Len(log) : log[i].run \in Nat /\ log[i].step \in 1..2
<1>1. log \in Seq(Entry) /\ Len(log) \in Nat
  BY DEF TInv, TypeOK
<1>2. \A i \in 1..Len(log) : log[i] \in Entry
  BY <1>1
<1>3. \A x \in Entry : x.run \in Nat /\ x.step \in 1..2
  BY DEF Entry
<1>4. QED  BY <1>1, <1>2, <1>3

\* A program that posts for the first time under this run and step.
LEMMA PostRun ==
    ASSUME TInv, RunInv, NEW c \in Clients, NEW l \in Locals, Post(c, l),
           UNCHANGED <<inflight, faucets, log, reports, rewound>>,
           runs' \in Nat, runs <= runs', l.run <= runs',
           resp'[c] = Nil, \A d \in Clients : d # c => resp'[d] = resp[d],
           \A d \in Clients : d # c /\ Running(d) => loc[d].run # l.run,
           \A p \in reports : p.run # l.run,
           l.step = 2 => l.cmd = "deploy",
           \A r \in Pending : r.run = l.run => r.step < l.step,
           \A i \in 1..Len(log) : log[i].run = l.run => log[i].step < l.step,
           l.step = 2 => \E i \in 1..Len(log) :
                            /\ log[i].run = l.run /\ log[i].kind = "store"
                            /\ log[i].code = l.code /\ log[i].nonce = l.nonce
    PROVE  RunInv'
<1> DEFINE b == Body(c, l)
<1>1. /\ b \in Request /\ b.run = l.run /\ b.step = l.step /\ b.code = l.code
      /\ l.cmd = "deploy" /\ l.step = 2 => b.nonce = l.nonce + 1
  BY BodyFacts
<1>2. /\ pc'[c] = "wait" /\ loc'[c] = l
      /\ \A d \in Clients : d # c => pc'[d] = pc[d] /\ loc'[d] = loc[d]
      /\ reqs' = reqs \cup {b}
  BY DEF Post, Goto, TInv, TypeOK
<1> HIDE DEF b
<1>3. Others' = Others \cup {b} /\ Pending' = Pending \cup {b}
  BY <1>2 DEF Pending, Others
<1>4. l.run \in Nat /\ l.step \in 1..2 /\ l.nonce \in Nat
  BY DEF Locals
<1>5. /\ Pending \subseteq Request
      /\ \A r \in Pending : r.run \in Nat /\ r.step \in 1..2
  BY PendingType DEF Request
<1>6. /\ \A p \in reports : p.run \in Nat
      /\ \A i \in 1..Len(log) : log[i].run \in Nat /\ log[i].step \in 1..2
      /\ \A d \in Clients : Running(d) => loc[d].run \in Nat /\ loc[d] \in Locals
      /\ runs \in Nat
  <2>1. \A p \in reports : p.run \in Nat
    BY DEF TInv, TypeOK, Report
  <2>2. \A i \in 1..Len(log) : log[i].run \in Nat /\ log[i].step \in 1..2
    BY LogType
  <2>3. \A d \in Clients : Running(d) => loc[d].run \in Nat /\ loc[d] \in Locals
    BY DEF TInv, Locals
  <2>4. QED  BY <2>1, <2>2, <2>3 DEF TInv, TypeOK
<1>7. RunsDistinct'
  <2>1. \A d \in Clients : Running(d)' => d = c \/ Running(d)
    BY <1>2 DEF Running
  <2>2. RunsDistinct
    BY DEF RunInv
  <2>3. \A d \in Clients : Running(d)' => loc'[d].run <= runs'
    BY <1>2, <1>4, <1>6, <2>1, <2>2 DEF RunsDistinct
  <2>4. \A r \in Pending' : r.run <= runs'
    BY <1>1, <1>3, <1>4, <1>5, <1>6, <2>2 DEF RunsDistinct
  <2>5. /\ \A i \in 1..Len(log') : log'[i].run <= runs'
        /\ \A p \in reports' : p.run <= runs'
    BY <1>6, <2>2 DEF RunsDistinct
  <2>6. \A d, e \in Clients :
            Running(d)' /\ Running(e)' /\ loc'[d].run = loc'[e].run => d = e
    BY <1>2, <2>1, <2>2 DEF RunsDistinct
  <2>7. \A p \in reports', d \in Clients : Running(d)' => loc'[d].run # p.run
    BY <1>2, <2>1, <2>2 DEF RunsDistinct
  <2>8. QED  BY <2>3, <2>4, <2>5, <2>6, <2>7 DEF RunsDistinct
<1>8. \A r \in Pending : ~(r.run = b.run /\ r.step = b.step)
  BY <1>1, <1>4, <1>5
<1>9. OncePosted'
  <2>1. b \notin Pending
    BY <1>8
  <2>2. inflight' # Nil => inflight'.req \notin Others'
    BY <1>3, <2>1 DEF Pending, RunInv, OncePosted
  <2>3. \A r, s \in Pending' : r.run = s.run /\ r.step = s.step => r = s
    BY <1>3, <1>8 DEF RunInv, OncePosted
  <2>4. \A i \in 1..Len(log) : ~(b.run = log[i].run /\ b.step = log[i].step)
    BY <1>1, <1>4, <1>6
  <2>5. QED  BY <1>3, <2>2, <2>3, <2>4 DEF RunInv, OncePosted
<1>10. ASSUME NEW d \in Clients PROVE PostedBy(d)'
  <2>1. CASE d = c
    <3>1. \A r \in Pending' : r.run = l.run =>
            r.step <= l.step /\ (r.step = l.step => r = b)
      BY <1>1, <1>3, <1>4, <1>5
    <3>2. \A i \in 1..Len(log) : log[i].run = l.run => log[i].step <= l.step
      BY <1>4, <1>6
    <3>3. QED  BY <1>2, <2>1, <3>1, <3>2 DEF PostedBy, b
  <2>2. CASE d # c
    <3>1. PostedBy(d) /\ pc'[d] = pc[d] /\ loc'[d] = loc[d] /\ resp'[d] = resp[d]
      BY <1>2, <2>2 DEF RunInv
    <3>2. Running(d) => b.run # loc[d].run
      BY <1>1, <2>2
    <3>3. pc[d] = "wait" \/ pc[d] = "fetch" => Running(d)
      BY DEF Running
    <3>4. QED  BY <1>3, <3>1, <3>2, <3>3 DEF PostedBy
  <2>3. QED  BY <2>1, <2>2
<1>11. HalvesInOrder'
  <2>1. b.step = 2 => \E i \in 1..Len(log) :
            /\ log[i].run = b.run /\ log[i].kind = "store"
            /\ log[i].code = b.code /\ log[i].nonce = b.nonce - 1
    <3>1. b.step = 2 => l.nonce = b.nonce - 1
      BY <1>1, <1>4
    <3>2. QED  BY <1>1, <3>1
  <2>2. QED  BY <1>3, <2>1 DEF RunInv, HalvesInOrder
<1>12. ReportsFinal'
  BY <1>1, <1>3 DEF RunInv, ReportsFinal
<1>13. DeployInOrder' /\ OkMeansCommitted'
  BY DEF RunInv, DeployInOrder, OkMeansCommitted, Entries
<1>14. QED  BY <1>7, <1>9, <1>10, <1>11, <1>12, <1>13 DEF RunInv

\* A step of the node that puts nothing on record.
LEMMA ServeRun ==
    ASSUME TInv, RunInv, UNCHANGED <<pc, loc, reports, runs, log>>,
           Pending' \subseteq Pending, rewound => rewound',
           inflight' # Nil => inflight'.req \notin Others',
           \A c \in Clients : pc[c] # "wait" => resp'[c] = resp[c],
           \A c \in Clients :
                pc[c] = "wait" /\ resp'[c] = TRUE /\ resp'[c] # Nil
                    /\ loc[c].cmd # "faucet" => resp[c] = TRUE /\ resp[c] # Nil
    PROVE  RunInv'
<1>1. RunsDistinct' /\ OncePosted'
  BY DEF RunInv, RunsDistinct, OncePosted, Running
<1>2. ASSUME NEW c \in Clients PROVE PostedBy(c)'
  <2>1. PostedBy(c)
    BY DEF RunInv
  <2>2. QED  BY <2>1 DEF PostedBy
<1>3. HalvesInOrder' /\ ReportsFinal'
  BY DEF RunInv, HalvesInOrder, ReportsFinal
<1>4. DeployInOrder' /\ OkMeansCommitted'
  BY DEF RunInv, DeployInOrder, OkMeansCommitted, Entries
<1>5. QED  BY <1>1, <1>2, <1>3, <1>4 DEF RunInv
\* A program that ends leaves its requests behind.
LEMMA ExitRun ==
    ASSUME TInv, RunInv, NEW c \in Clients, Exit(c),
           UNCHANGED <<reqs, inflight, faucets, log, reports, runs, rewound>>
    PROVE  RunInv'
<1>1. /\ pc'[c] = "idle" /\ resp'[c] = Nil
      /\ \A d \in Clients : d # c =>
            pc'[d] = pc[d] /\ loc'[d] = loc[d] /\ resp'[d] = resp[d]
  BY DEF Exit, Goto, TInv, TypeOK
<1>2. Pending' = Pending /\ Others' = Others
  BY DEF Pending, Others
<1>3. RunsDistinct' /\ OncePosted'
  BY <1>1, <1>2 DEF RunInv, RunsDistinct, OncePosted, Running
<1>4. ASSUME NEW d \in Clients PROVE PostedBy(d)'
  <2>1. PostedBy(d)
    BY DEF RunInv
  <2>2. CASE d = c
    BY <1>1, <2>2 DEF PostedBy
  <2>3. CASE d # c
    BY <1>1, <1>2, <2>1, <2>3 DEF PostedBy
  <2>4. QED  BY <2>2, <2>3
<1>5. HalvesInOrder' /\ ReportsFinal'
  BY <1>2 DEF RunInv, HalvesInOrder, ReportsFinal
<1>6. DeployInOrder' /\ OkMeansCommitted'
  BY DEF RunInv, DeployInOrder, OkMeansCommitted, Entries
<1>7. QED  BY <1>3, <1>4, <1>5, <1>6 DEF RunInv

\* What the record holds of a program whose last answer was good.
CommittedAs(p) ==
    /\ p.cmd \in {"store", "instantiate", "execute"} =>
        \E i \in 1..Len(log) :
            /\ Entries(p.run) = {i}
            /\ log[i].kind = p.cmd /\ log[i].code = p.code /\ log[i].nonce = p.nonce
    /\ p.cmd = "deploy" =>
        \E i, j \in 1..Len(log) :
            /\ Entries(p.run) = {i, j} /\ i < j
            /\ log[i].kind = "store" /\ log[i].code = p.code /\ log[i].nonce = p.nonce
            /\ log[j].kind = "instantiate" /\ log[j].code = p.code
            /\ log[j].nonce = p.nonce + 1
            /\ rewound \/ j = i + 1

LEMMA ReportIsCommitted ==
    ASSUME TInv, NodeInv, RunInv, NEW c \in Clients, pc[c] = "wait",
           resp[c] # Nil, resp[c] = TRUE, loc[c].cmd # "faucet",
           ~(loc[c].cmd = "deploy" /\ loc[c].step = 1)
    PROVE  /\ CommittedAs(Reported(c))
           /\ \A r \in Pending : r.run # loc[c].run
<1> DEFINE l == loc[c]
           b == Body(c, l)
<1>1. l \in Locals /\ l.run \in Nat /\ l.nonce \in Nat /\ l.step \in 1..2
  BY DEF TInv, Running, Locals
<1>2. PostedBy(c)
  BY DEF RunInv
<1>3. PICK j \in 1..Len(log) : log[j] = Recorded(b)
  BY <1>2 DEF PostedBy
<1>4. /\ log[j].run = l.run /\ log[j].step = l.step /\ log[j].code = l.code
      /\ log[j].kind = b.kind /\ log[j].nonce = b.nonce
  BY <1>1, <1>3, BodyFacts DEF Recorded
<1>5. Len(log) \in Nat /\ \A i \in 1..Len(log) : log[i].step \in 1..2
  BY LogType
<1>6. \A r \in Pending : r.step \in 1..2
  BY PendingType DEF Request
<1>7. /\ \A i \in 1..Len(log) : log[i].run = l.run => log[i].step <= l.step
      /\ \A r \in Pending : r.run = l.run => r.step <= l.step
      /\ l.step = 2 => l.cmd = "deploy"
  BY <1>2 DEF PostedBy
<1>8. /\ Reported(c).run = l.run /\ Reported(c).cmd = l.cmd
      /\ Reported(c).nonce = l.nonce /\ Reported(c).code = l.code
  BY DEF Reported
<1>9. OncePosted
  BY DEF RunInv
<1>10. CASE l.step = 1
  <2>1. l.cmd \in {"store", "instantiate", "execute"}
    <3>1. l.cmd \in {"store", "instantiate", "execute", "deploy", "faucet"}
      <4>1. l.cmd \in Commands
        BY <1>1 DEF Locals
      <4>2. QED  BY <4>1, ClientAssumption, Zenon
    <3>2. QED  BY <1>10, <3>1
  <2>2. b.kind = l.cmd /\ b.nonce = l.nonce
    BY <1>1, <2>1, BodyFacts
  <2>3. \A i \in 1..Len(log) : log[i].run = l.run => i = j
    BY <1>4, <1>5, <1>7, <1>9, <1>10 DEF OncePosted
  <2>4. Entries(l.run) = {j}
    BY <1>4, <2>3 DEF Entries
  <2>5. \A r \in Pending : r.run # l.run
    BY <1>4, <1>6, <1>7, <1>9, <1>10 DEF OncePosted
  <2>6. l.cmd # "deploy"
    BY <2>1
  <2> HIDE DEF l, b
  <2>7. CommittedAs(Reported(c))
    BY <1>4, <1>8, <2>1, <2>2, <2>4, <2>6 DEF CommittedAs
  <2>8. QED  BY <2>5, <2>7 DEF l
<1>11. CASE l.step = 2
  <2>1. l.cmd = "deploy" /\ b.kind = "instantiate" /\ b.nonce = l.nonce + 1
    BY <1>1, <1>7, <1>11, BodyFacts
  <2>2. PICK i \in 1..Len(log) :
            /\ i < j /\ log[i].run = l.run /\ log[i].kind = "store"
            /\ log[i].code = l.code /\ log[i].nonce = log[j].nonce - 1
            /\ rewound \/ i = j - 1
    BY <1>4, <1>11 DEF RunInv, DeployInOrder
  <2>3. i # j /\ (rewound \/ j = i + 1)
    BY <1>5, <2>2
  <2>4. log[i].step = 1
    BY <1>4, <1>5, <1>9, <1>11, <2>2, <2>3 DEF OncePosted
  <2>5. log[i].nonce = l.nonce /\ log[j].nonce = l.nonce + 1
    BY <1>1, <1>4, <2>1, <2>2
  <2>6. \A k \in 1..Len(log) : log[k].run = l.run => k = i \/ k = j
    BY <1>4, <1>5, <1>9, <1>11, <2>2, <2>4 DEF OncePosted
  <2>7. Entries(l.run) = {i, j}
    BY <1>4, <2>2, <2>6 DEF Entries
  <2>8. \A r \in Pending : r.run # l.run
    BY <1>4, <1>6, <1>9, <1>11, <2>2, <2>4 DEF OncePosted
  <2> HIDE DEF l, b
  <2>9. CommittedAs(Reported(c))
    BY <1>4, <1>8, <2>1, <2>2, <2>3, <2>5, <2>7 DEF CommittedAs
  <2>10. QED  BY <2>8, <2>9 DEF l
<1>12. QED  BY <1>1, <1>10, <1>11
\* A command ends well and says so.
LEMMA ReportRun ==
    ASSUME TInv, NodeInv, RunInv, NEW c \in Clients, pc[c] = "wait",
           resp[c] # Nil, resp[c] = TRUE,
           ~(loc[c].cmd = "deploy" /\ loc[c].step = 1),
           Exit(c), reports' = reports \cup {Reported(c)},
           UNCHANGED <<reqs, inflight, faucets, log, runs, rewound>>
    PROVE  RunInv'
<1> DEFINE p == Reported(c)
<1>1. /\ pc'[c] = "idle" /\ resp'[c] = Nil
      /\ \A d \in Clients : d # c =>
            pc'[d] = pc[d] /\ loc'[d] = loc[d] /\ resp'[d] = resp[d]
  BY DEF Exit, Goto, TInv, TypeOK
<1>2. Pending' = Pending /\ Others' = Others
  BY DEF Pending, Others
<1>3. p.run = loc[c].run /\ p.cmd = loc[c].cmd
  BY DEF Reported
<1>4. p.cmd # "faucet" => CommittedAs(p) /\ \A r \in Pending : r.run # p.run
  BY <1>3, ReportIsCommitted
<1>5. reports' = reports \cup {p}
  OBVIOUS
<1> HIDE DEF p
<1>6. RunsDistinct' /\ OncePosted'
  <2>1. Running(c)
    BY DEF Running
  <2>2. QED  BY <1>1, <1>2, <1>3, <1>5, <2>1 DEF RunInv, RunsDistinct, OncePosted, Running
<1>7. ASSUME NEW d \in Clients PROVE PostedBy(d)'
  <2>1. PostedBy(d)
    BY DEF RunInv
  <2>2. CASE d = c
    BY <1>1, <2>2 DEF PostedBy
  <2>3. CASE d # c
    BY <1>1, <1>2, <2>1, <2>3 DEF PostedBy
  <2>4. QED  BY <2>2, <2>3
<1>8. HalvesInOrder' /\ ReportsFinal'
  BY <1>2, <1>4, <1>5 DEF RunInv, HalvesInOrder, ReportsFinal
<1>9. DeployInOrder'
  BY DEF RunInv, DeployInOrder
<1>10. OkMeansCommitted'
  <2>1. \A q \in reports : CommittedAs(q)
    BY DEF RunInv, OkMeansCommitted, CommittedAs
  <2>2. CommittedAs(p)
    <3>1. CASE p.cmd # "faucet"
      BY <1>4, <3>1
    <3>2. CASE p.cmd = "faucet"
      BY <3>2 DEF CommittedAs
    <3>3. QED  BY <3>1, <3>2
  <2>3. \A q \in reports' : CommittedAs(q)
    BY <1>5, <2>1, <2>2
  <2>4. QED  BY <2>3 DEF OkMeansCommitted, CommittedAs, Entries
<1>11. QED  BY <1>6, <1>7, <1>8, <1>9, <1>10 DEF RunInv

\* The commit puts the transaction in flight on record.
LEMMA CommitRun ==
    ASSUME TInv, NodeInv, RunInv, Commit
    PROVE  RunInv'
<1> DEFINE r == inflight.req
           en == Recorded(r)
           n == Len(log) + 1
<1>1. /\ inflight # Nil /\ r \in Request /\ r \in Pending
      /\ UNCHANGED <<pc, loc, reqs, reports, runs>>
      /\ inflight' = Nil /\ log' = Append(log, en) /\ UNCHANGED <<faucets, rewound>>
  BY DEF Commit, TInv, TypeOK, InFlight, Pending
<1>2. /\ en.run = r.run /\ en.step = r.step /\ en.kind = r.kind /\ en.code = r.code
      /\ en.nonce = r.nonce /\ en \in Entry
      /\ r.run \in Nat /\ r.step \in 1..2
  BY <1>1 DEF Recorded, Entry, Request
<1>3. rewound \/ (r.nonce = Len(log) /\ \A i \in 1..Len(log) : log[i].nonce = i - 1)
  BY <1>1 DEF NodeInv, FlightInv, RecordInv, Current
<1>4. /\ \A s \in Pending' : s \in Pending /\ s # r
      /\ \A s \in Pending' : ~(s.run = r.run /\ s.step = r.step)
  BY <1>1 DEF Pending, Others, RunInv, OncePosted
<1>5. /\ Len(log) \in Nat /\ n \in Nat /\ Len(log') = n /\ log'[n] = en
      /\ \A i \in 1..Len(log) : log'[i] = log[i]
      /\ \A i \in 1..Len(log') : i \in 1..Len(log) \/ i = n
      /\ \A i \in 1..Len(log) : i \in 1..Len(log')
      /\ n \in 1..Len(log') /\ n \notin 1..Len(log)
  <2>1. log \in Seq(Entry) /\ Len(log) \in Nat
    BY LogType
  <2>2. en \in Entry /\ log' = Append(log, en)
    BY <1>1, <1>2
  <2> HIDE DEF en
  <2>3. QED  BY <2>1, <2>2
<1> HIDE DEF r, en, n
<1>6. RunsDistinct'
  BY <1>1, <1>2, <1>4, <1>5 DEF RunInv, RunsDistinct, Running
<1>7. OncePosted'
  <2>1. \A i \in 1..Len(log) : ~(log[i].run = r.run /\ log[i].step = r.step)
    BY <1>1 DEF RunInv, OncePosted
  <2>2. \A s \in Pending', i \in 1..Len(log') :
            ~(s.run = log'[i].run /\ s.step = log'[i].step)
    BY <1>2, <1>4, <1>5 DEF RunInv, OncePosted
  <2>3. \A i, j \in 1..Len(log') :
            log'[i].run = log'[j].run /\ log'[i].step = log'[j].step => i = j
    BY <1>2, <1>5, <2>1 DEF RunInv, OncePosted
  <2>4. \A s, u \in Pending' : s.run = u.run /\ s.step = u.step => s = u
    BY <1>4 DEF RunInv, OncePosted
  <2>5. QED  BY <1>1, <2>2, <2>3, <2>4 DEF OncePosted
<1>8. ASSUME NEW c \in Clients PROVE PostedBy(c)'
  <2>1. PostedBy(c)
    BY DEF RunInv
  <2>2. CASE pc[c] # "wait"
    <3>1. resp'[c] = Nil
      <4>1. resp[c] = Nil /\ Answer(r, TRUE)
        BY <2>1, <2>2 DEF PostedBy, Commit, r
      <4>2. ~(Waiting(r) /\ r.client = c)
        BY <2>2 DEF Waiting
      <4>3. QED  BY <4>1, <4>2 DEF Answer, TInv, TypeOK
    <3>2. pc[c] = "fetch" => r.run # loc[c].run
      BY <1>1, <2>1 DEF PostedBy
    <3>3. pc[c] = "fetch" => \A i \in 1..Len(log') : log'[i].run # loc[c].run
      BY <1>2, <1>5, <2>1, <3>2 DEF PostedBy
    <3>4. pc[c] = "fetch" => \A s \in Pending' : s.run # loc[c].run
      BY <1>4, <2>1 DEF PostedBy
    <3>5. QED  BY <1>1, <2>1, <2>2, <3>1, <3>3, <3>4 DEF PostedBy
  <2>3. CASE pc[c] = "wait"
    <3>1. \A i \in 1..Len(log') : log'[i].run = loc[c].run => log'[i].step <= loc[c].step
      BY <1>1, <1>2, <1>5, <2>1, <2>3 DEF PostedBy
    <3>2. ASSUME resp'[c] = TRUE, resp'[c] # Nil, loc[c].cmd # "faucet"
          PROVE  \E i \in 1..Len(log') : log'[i] = Recorded(Body(c, loc[c]))
      <4>1. CASE Waiting(r) /\ r.client = c
        <5>1. r = Body(c, loc[c])
          BY <1>1, <2>1, <2>3, <4>1 DEF PostedBy, Waiting
        <5>2. QED  BY <1>5, <5>1 DEF en
      <4>2. CASE ~(Waiting(r) /\ r.client = c)
        <5>1. resp'[c] = resp[c]
          BY <4>2 DEF Commit, Answer, r, TInv, TypeOK
        <5>2. QED  BY <1>5, <2>1, <2>3, <3>2, <5>1 DEF PostedBy
      <4>3. QED  BY <4>1, <4>2
    <3>3. \A s \in Pending' : s.run = loc[c].run =>
            s.step <= loc[c].step /\ (s.step = loc[c].step => s = Body(c, loc[c]))
      BY <1>4, <2>1, <2>3 DEF PostedBy
    <3>4. QED  BY <1>1, <2>1, <2>3, <3>1, <3>2, <3>3 DEF PostedBy
  <2>4. QED  BY <2>2, <2>3
<1>9. HalvesInOrder' /\ ReportsFinal'
  <2>1. HalvesInOrder'
    BY <1>4, <1>5 DEF RunInv, HalvesInOrder
  <2>2. QED  BY <1>1, <1>4, <2>1 DEF RunInv, ReportsFinal
<1>10. DeployInOrder'
  <2>1. ASSUME r.step = 2
        PROVE  \E i \in 1..Len(log') :
                /\ i < n /\ log'[i].run = r.run /\ log'[i].kind = "store"
                /\ log'[i].code = r.code /\ log'[i].nonce = r.nonce - 1
                /\ rewound \/ i = n - 1
    <3>1. PICK i \in 1..Len(log) :
            /\ log[i].run = r.run /\ log[i].kind = "store"
            /\ log[i].code = r.code /\ log[i].nonce = r.nonce - 1
      BY <1>1, <2>1 DEF RunInv, HalvesInOrder
    <3>2. i < n /\ i \in 1..Len(log') /\ log'[i] = log[i]
      BY <1>5 DEF n
    <3>3. rewound \/ i = n - 1
      BY <1>3, <1>5, <3>1 DEF n
    <3>4. QED  BY <3>1, <3>2, <3>3
  <2>2. \A j \in 1..Len(log) :
            log[j].step = 2 =>
                \E i \in 1..Len(log') :
                    /\ i < j /\ log'[i].run = log'[j].run
                    /\ log'[i].kind = "store" /\ log'[i].code = log'[j].code
                    /\ log'[i].nonce = log'[j].nonce - 1
                    /\ rewound \/ i = j - 1
    BY <1>5 DEF RunInv, DeployInOrder
  <2>3. QED  BY <1>1, <1>2, <1>5, <2>1, <2>2 DEF DeployInOrder
<1>11. OkMeansCommitted'
  <2>1. ASSUME NEW p \in reports, p.cmd # "faucet"
        PROVE  CommittedAs(p)'
    <3>1. r.run # p.run /\ CommittedAs(p)
      BY <1>1, <2>1 DEF RunInv, ReportsFinal, OkMeansCommitted, CommittedAs
    <3>2. Entries(p.run)' = Entries(p.run)
      BY <1>2, <1>5, <3>1 DEF Entries
    <3>3. QED  BY <1>1, <1>5, <3>1, <3>2 DEF CommittedAs
  <2>2. ASSUME NEW p \in reports, p.cmd = "faucet"
        PROVE  CommittedAs(p)'
    BY <2>2 DEF CommittedAs
  <2>3. \A p \in reports' : CommittedAs(p)'
    BY <1>1, <2>1, <2>2
  <2>4. QED  BY <2>3 DEF OkMeansCommitted, CommittedAs
<1>12. QED  BY <1>6, <1>7, <1>8, <1>9, <1>10, <1>11 DEF RunInv
LEMMA StartRun ==
    ASSUME TInv, RunInv, NEW c \in Clients, Start(c)
    PROVE  RunInv'
<1>1. /\ pc[c] = "idle" /\ runs' = runs + 1 /\ runs \in Nat
      /\ UNCHANGED <<resp, inflight, faucets, log, reports, rewound>>
  BY DEF Start, node, history, TInv, TypeOK
<1>2. PICK l \in Locals :
        /\ l.run = runs + 1 /\ l.step = 1
        /\ \/ l.cmd = "faucet" /\ Post(c, l)
           \/ /\ l.cmd # "faucet" /\ loc' = [loc EXCEPT ![c] = l]
              /\ Goto(c, "fetch") /\ UNCHANGED reqs
  BY StartCases
<1>3. /\ \A d \in Clients : Running(d) => loc[d].run # l.run
      /\ \A p \in reports : p.run # l.run
      /\ \A r \in Pending : r.run # l.run
      /\ \A i \in 1..Len(log) : log[i].run # l.run
  <2>1. \A k : k <= runs /\ k \in Nat => k # l.run
    BY <1>1, <1>2
  <2>2. \A d \in Clients : Running(d) => loc[d].run \in Nat
    BY DEF TInv, Locals
  <2>3. \A p \in reports : p.run \in Nat
    BY DEF TInv, TypeOK, Report
  <2>4. \A r \in Pending : r.run \in Nat
    BY PendingType DEF Request
  <2>5. \A i \in 1..Len(log) : log[i].run \in Nat
    BY LogType
  <2>6. QED  BY <2>1, <2>2, <2>3, <2>4, <2>5 DEF RunInv, RunsDistinct
<1>4. resp[c] = Nil /\ resp'[c] = Nil /\ \A d \in Clients : d # c => resp'[d] = resp[d]
  BY <1>1 DEF RunInv, PostedBy
<1>5. CASE Post(c, l)
  BY <1>1, <1>2, <1>3, <1>4, <1>5, PostRun
<1>6. CASE /\ l.cmd # "faucet" /\ loc' = [loc EXCEPT ![c] = l]
           /\ Goto(c, "fetch") /\ UNCHANGED reqs
  <2>1. /\ pc'[c] = "fetch" /\ loc'[c] = l
        /\ \A d \in Clients : d # c => pc'[d] = pc[d] /\ loc'[d] = loc[d]
    BY <1>6 DEF Goto, TInv, TypeOK
  <2>2. Pending' = Pending /\ Others' = Others
    BY <1>1, <1>6 DEF Pending, Others
  <2>3. RunsDistinct'
    <3>1. \A d \in Clients : Running(d) => loc[d].run \in Nat
      BY DEF TInv, Locals
    <3>2. \A p \in reports : p.run \in Nat
      BY DEF TInv, TypeOK, Report
    <3>3. \A r \in Pending : r.run \in Nat
      BY PendingType DEF Request
    <3>4. \A i \in 1..Len(log) : log[i].run \in Nat
      BY LogType
    <3>5. \A k : k \in Nat /\ k <= runs => k <= runs'
      BY <1>1
    <3>6. l.run <= runs'
      BY <1>1, <1>2
    <3>7. \A d \in Clients : Running(d)' => d = c \/ Running(d)
      BY <2>1 DEF Running
    <3>8. QED  BY <1>1, <1>3, <2>1, <2>2, <3>1, <3>2, <3>3, <3>4, <3>5, <3>6, <3>7
               DEF RunInv, RunsDistinct
  <2>4. OncePosted'
    BY <1>1, <1>6, <2>2 DEF RunInv, OncePosted
  <2>5. ASSUME NEW d \in Clients PROVE PostedBy(d)'
    <3>1. PostedBy(d)
      BY DEF RunInv
    <3>2. CASE d = c
      BY <1>1, <1>2, <1>3, <1>4, <1>6, <2>1, <2>2, <3>2 DEF PostedBy
    <3>3. CASE d # c
      BY <1>1, <2>1, <2>2, <3>1, <3>3 DEF PostedBy
    <3>4. QED  BY <3>2, <3>3
  <2>6. HalvesInOrder' /\ ReportsFinal'
    BY <1>1, <2>2 DEF RunInv, HalvesInOrder, ReportsFinal
  <2>7. DeployInOrder' /\ OkMeansCommitted'
    BY <1>1 DEF RunInv, DeployInOrder, OkMeansCommitted, Entries
  <2>8. QED  BY <2>3, <2>4, <2>5, <2>6, <2>7 DEF RunInv
<1>7. QED  BY <1>2, <1>5, <1>6

LEMMA GetNonceRun ==
    ASSUME TInv, RunInv, NEW c \in Clients, GetNonce(c)
    PROVE  RunInv'
<1> DEFINE l == FetchedLocals(c)
<1>1. /\ pc[c] = "fetch" /\ Post(c, l) /\ runs \in Nat
      /\ UNCHANGED <<resp, inflight, faucets, log, reports, runs, rewound>>
  BY DEF GetNonce, FetchedLocals, node, history, TInv, TypeOK
<1>2. /\ l \in Locals /\ l.run = loc[c].run /\ l.step = loc[c].step
      /\ l.cmd = loc[c].cmd /\ l.run \in Nat
  BY <1>1, FetchedLocalsFacts DEF Locals
<1> HIDE DEF l
<1>3. /\ l.step = 1 /\ resp[c] = Nil
      /\ \A r \in Pending : r.run # l.run
      /\ \A i \in 1..Len(log) : log[i].run # l.run
  BY <1>1, <1>2 DEF RunInv, PostedBy
<1>4. /\ \A d \in Clients : d # c /\ Running(d) => loc[d].run # l.run
      /\ \A p \in reports : p.run # l.run
      /\ l.run <= runs
  BY <1>1, <1>2 DEF RunInv, RunsDistinct, Running
<1>5. QED  BY <1>1, <1>2, <1>3, <1>4, PostRun

LEMMA ReadResponseRun ==
    ASSUME TInv, NodeInv, RunInv, NEW c \in Clients, ReadResponse(c)
    PROVE  RunInv'
<1>1. /\ pc[c] = "wait" /\ resp[c] # Nil /\ loc[c] \in Locals
      /\ UNCHANGED <<inflight, faucets, log, runs, rewound>>
  BY ReadResponseCases DEF node, history
<1>2. CASE Exit(c) /\ UNCHANGED <<reqs, reports>>
  BY <1>1, <1>2, ExitRun
<1>3. CASE resp[c] = TRUE /\ loc[c].cmd = "deploy" /\ loc[c].step = 1 /\ NextStep(c)
  <2> DEFINE l == SecondLocals(c)
             b == Body(c, loc[c])
  <2>1. /\ Post(c, l) /\ UNCHANGED reports
        /\ resp'[c] = Nil /\ \A d \in Clients : d # c => resp'[d] = resp[d]
    BY <1>3 DEF NextStep, SecondLocals, TInv, TypeOK
  <2>2. /\ l \in Locals /\ l.run = loc[c].run /\ l.step = 2 /\ l.cmd = "deploy"
        /\ l.code = loc[c].code /\ l.nonce = loc[c].nonce
        /\ runs \in Nat /\ l.run \in Nat
    BY <1>1, <1>3, SecondLocalsFacts DEF Locals, TInv, TypeOK
  <2>3. PostedBy(c) /\ RunsDistinct
    BY DEF RunInv
  <2>4. \E i \in 1..Len(log) :
            /\ log[i].run = l.run /\ log[i].kind = "store"
            /\ log[i].code = l.code /\ log[i].nonce = l.nonce
    <3>1. PICK i \in 1..Len(log) : log[i] = Recorded(b)
      BY <1>1, <1>3, <2>3 DEF PostedBy
    <3>2. /\ b.run = loc[c].run /\ b.kind = "store" /\ b.code = loc[c].code
          /\ b.nonce = loc[c].nonce
      BY <1>1, <1>3, BodyFacts
    <3> HIDE DEF b, l
    <3>3. QED  BY <2>2, <3>1, <3>2 DEF Recorded
  <2> HIDE DEF b, l
  <2>5. /\ \A r \in Pending : r.run = l.run => r.step < l.step
        /\ \A i \in 1..Len(log) : log[i].run = l.run => log[i].step < l.step
    <3>1. \A r \in Pending : r.step \in 1..2
      BY PendingType DEF Request
    <3>2. \A i \in 1..Len(log) : log[i].step \in 1..2
      BY LogType
    <3>3. QED  BY <1>1, <1>3, <2>2, <2>3, <3>1, <3>2 DEF PostedBy
  <2>6. /\ \A d \in Clients : d # c /\ Running(d) => loc[d].run # l.run
        /\ \A p \in reports : p.run # l.run
        /\ l.run <= runs
    BY <1>1, <2>2, <2>3 DEF RunsDistinct, Running
  <2>7. QED  BY <1>1, <2>1, <2>2, <2>4, <2>5, <2>6, PostRun
<1>4. CASE /\ resp[c] = TRUE /\ ~(loc[c].cmd = "deploy" /\ loc[c].step = 1)
           /\ reports' = reports \cup {Reported(c)} /\ Exit(c) /\ UNCHANGED reqs
  BY <1>1, <1>4, ReportRun
<1>5. QED  BY <1>2, <1>3, <1>4, ReadResponseCases

\* The answer to a request that leaves nothing on record.
LEMMA AnswerRun ==
    ASSUME TInv, RunInv, NEW r \in Pending, NEW ok \in BOOLEAN, Answer(r, ok),
           ok = TRUE => r.kind = "faucet"
    PROVE  /\ \A c \in Clients : pc[c] # "wait" => resp'[c] = resp[c]
           /\ \A c \in Clients :
                pc[c] = "wait" /\ resp'[c] = TRUE /\ resp'[c] # Nil
                    /\ loc[c].cmd # "faucet" => resp[c] = TRUE /\ resp[c] # Nil
<1>1. ASSUME NEW c \in Clients, ~(Waiting(r) /\ r.client = c)
      PROVE  resp'[c] = resp[c]
  BY <1>1 DEF Answer, TInv, TypeOK
<1>2. ASSUME NEW c \in Clients, Waiting(r), r.client = c
      PROVE  pc[c] = "wait" /\ (resp'[c] = TRUE => loc[c].cmd = "faucet")
  <2>1. pc[c] = "wait" /\ resp'[c] = ok /\ loc[c] \in Locals
    BY <1>2 DEF Waiting, Answer, TInv, TypeOK, Running
  <2>2. r = Body(c, loc[c])
    BY <1>2, <2>1 DEF Waiting, RunInv, PostedBy
  <2>3. r.kind = "faucet" => loc[c].cmd = "faucet"
    <3>1. loc[c].cmd \in {"store", "instantiate", "execute", "deploy", "faucet"}
      <4>1. loc[c].cmd \in Commands
        BY <2>1 DEF Locals
      <4>2. QED  BY <4>1, ClientAssumption, Zenon
    <3>2. loc[c].step = 1 \/ loc[c].step = 2
      BY <2>1 DEF Locals
    <3>3. QED  BY <2>1, <2>2, <3>1, <3>2, BodyFacts
  <2>4. QED  BY <2>1, <2>3
<1>3. QED  BY <1>1, <1>2

LEMMA RunInvStep ==
    ASSUME TInv, NodeInv, RunInv, [Next]_vars
    PROVE  RunInv'
<1>1. ASSUME NEW c \in Clients, Proceed(c) PROVE RunInv'
  <2>1. CASE FetchFails(c) \/ Timeout(c)
    BY <2>1, ExitRun DEF FetchFails, Timeout, node, history
  <2>2. QED  BY <1>1, <2>1, GetNonceRun, ReadResponseRun DEF Proceed
<1>2. CASE UNCHANGED vars
  <2>1. UNCHANGED <<pc, loc, resp, reqs, inflight, faucets, log, reports, runs, rewound>>
    BY <1>2 DEF vars, node, history
  <2>2. Pending' = Pending /\ Others' = Others
    BY <2>1 DEF Pending, Others
  <2>3. QED  BY <2>1, <2>2, ServeRun DEF RunInv, OncePosted
<1>3. ASSUME NEW r \in reqs, Begin(r) PROVE RunInv'
  <2>1. /\ inflight = Nil /\ inflight' = [req |-> r, snap |-> mem] /\ r.kind # "faucet"
        /\ reqs' = reqs \ {r}
        /\ UNCHANGED <<pc, loc, resp, faucets, reports, runs, log, rewound>>
    BY <1>3 DEF Begin
  <2>2. inflight'.req = r
    BY <2>1
  <2>3. \A f \in faucets : f.req # r
    BY <2>1, FaucetFacts
  <2>4. Pending' \subseteq Pending /\ inflight'.req \notin Others'
    BY <2>1, <2>2, <2>3 DEF Pending, Others
  <2>5. QED  BY <2>1, <2>4, ServeRun
<1>4. ASSUME NEW r \in reqs, Fail(r) PROVE RunInv'
  <2>1. /\ reqs' = reqs \ {r} /\ Answer(r, FALSE)
        /\ UNCHANGED <<pc, loc, inflight, faucets, reports, runs, log, rewound>>
    BY <1>4 DEF Fail, node, history
  <2>2. r \in Pending /\ Pending' \subseteq Pending /\ Others' \subseteq Others
    BY <2>1 DEF Pending, Others
  <2>3. inflight' # Nil => inflight'.req \notin Others'
    BY <2>1, <2>2 DEF RunInv, OncePosted
  <2>4. QED  BY <2>1, <2>2, <2>3, AnswerRun, ServeRun
<1>5. CASE FailCharged \/ Abort
  <2>1. /\ inflight # Nil /\ inflight' = Nil /\ Answer(inflight.req, FALSE)
        /\ UNCHANGED <<pc, loc, reqs, faucets, reports, runs, log, rewound>>
    BY <1>5 DEF FailCharged, Abort, history
  <2>2. inflight.req \in Pending /\ Pending' \subseteq Pending
    BY <2>1 DEF Pending, Others
  <2>3. QED  BY <2>1, <2>2, AnswerRun, ServeRun
<1>6. CASE Restart
  <2>1. /\ inflight' = Nil /\ faucets' = {} /\ (rewound => rewound')
        /\ UNCHANGED <<pc, loc, resp, reqs, reports, runs, log>>
    BY <1>6 DEF Restart
  <2>2. Pending' \subseteq Pending
    BY <2>1 DEF Pending, Others
  <2>3. QED  BY <2>1, <2>2, ServeRun
<1>7. ASSUME NEW r \in reqs, FaucetSet(r) PROVE RunInv'
  <2>1. /\ faucets' = faucets \cup {[req |-> r, nonce |-> Nil]} /\ reqs' = reqs \ {r}
        /\ UNCHANGED <<pc, loc, resp, inflight, reports, runs, log, rewound>>
    BY <1>7 DEF FaucetSet
  <2>2. Others' \subseteq Others /\ Pending' \subseteq Pending
    BY <2>1 DEF Pending, Others
  <2>3. inflight' # Nil => inflight'.req \notin Others'
    BY <2>1, <2>2 DEF RunInv, OncePosted
  <2>4. QED  BY <2>1, <2>2, <2>3, ServeRun
<1>8. ASSUME NEW f \in faucets, FaucetRead(f) PROVE RunInv'
  <2>1. /\ faucets' = (faucets \ {f}) \cup {[f EXCEPT !.nonce = mem.nonce]}
        /\ UNCHANGED <<pc, loc, resp, reqs, inflight, reports, runs, log, rewound>>
    BY <1>8 DEF FaucetRead, history
  <2>2. [f EXCEPT !.nonce = mem.nonce].req = f.req
    BY FaucetFacts DEF FaucetRequest
  <2>3. Others' \subseteq Others /\ Pending' \subseteq Pending
    BY <2>1, <2>2 DEF Pending, Others
  <2>4. inflight' # Nil => inflight'.req \notin Others'
    BY <2>1, <2>3 DEF RunInv, OncePosted
  <2>5. QED  BY <2>1, <2>3, <2>4, ServeRun
<1>9. ASSUME NEW f \in faucets, FaucetWrite(f) PROVE RunInv'
  <2>1. /\ faucets' = faucets \ {f} /\ (Answer(f.req, TRUE) \/ Answer(f.req, FALSE))
        /\ UNCHANGED <<pc, loc, reqs, inflight, reports, runs, log, rewound>>
    BY <1>9 DEF FaucetWrite
  <2>2. f.req \in Pending /\ Others' \subseteq Others /\ Pending' \subseteq Pending
    BY <2>1 DEF Pending, Others
  <2>3. inflight' # Nil => inflight'.req \notin Others'
    BY <2>1, <2>2 DEF RunInv, OncePosted
  <2>4. PICK ok \in BOOLEAN : Answer(f.req, ok)
    BY <2>1
  <2>5. f.req.kind = "faucet"
    BY FaucetFacts
  <2>6. QED  BY <2>1, <2>2, <2>3, <2>4, <2>5, AnswerRun, ServeRun
<1>10. QED  BY <1>1, <1>2, <1>3, <1>4, <1>5, <1>6, <1>7, <1>8, <1>9, StartRun, CommitRun
            DEF Next

LEMMA Inductive ==
    /\ Init => TInv /\ NodeInv /\ RunInv
    /\ TInv /\ NodeInv /\ RunInv /\ [Next]_vars => TInv' /\ NodeInv' /\ RunInv'
<1>1. ASSUME Init PROVE RunInv
  <2>1. Pending = {} /\ Len(log) = 0 /\ reports = {} /\ inflight = Nil
    BY <1>1 DEF Init, Pending, Others
  <2>2. \A c \in Clients : pc[c] = "idle" /\ resp[c] = Nil
    BY <1>1 DEF Init
  <2>3. RunsDistinct /\ OncePosted
    BY <2>1, <2>2 DEF RunsDistinct, OncePosted, Running
  <2>4. \A c \in Clients : PostedBy(c)
    BY <2>2 DEF PostedBy
  <2>5. HalvesInOrder /\ ReportsFinal /\ DeployInOrder /\ OkMeansCommitted
    BY <2>1 DEF HalvesInOrder, ReportsFinal, DeployInOrder, OkMeansCommitted
  <2>6. QED  BY <2>3, <2>4, <2>5 DEF RunInv
<1>2. QED  BY <1>1, InitTInv, InitNodeInv, TInvStep, NodeInvStep, RunInvStep

\* A command that reports success has exactly its own transactions on record,
\* once each, for any number of programs with the same key: an answer only
\* reaches the program that waits for it, under a run and a step that are
\* posted once (readResponse, cmdDeploy).  The two of a deploy are next to
\* each other unless a restart took over a nonce the faucet left astray.
THEOREM SuccessMeansCommitted == Spec => []OkMeansCommitted
<1>1. RunInv => OkMeansCommitted
  BY DEF RunInv
<1>2. QED  BY <1>1, Inductive, PTL DEF Spec

\* The instantiate of a deploy is on record only behind its store, with the
\* nonce that follows, and right behind it unless a restart took over a nonce
\* the faucet left astray: only one transaction can have that nonce (cmdDeploy,
\* the nonce check).
THEOREM DeploysInOrder == Spec => []DeployInOrder
<1>1. RunInv => DeployInOrder
  BY DEF RunInv
<1>2. QED  BY <1>1, Inductive, PTL DEF Spec
=============================================================================
