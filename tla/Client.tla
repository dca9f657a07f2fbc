------------------------------- MODULE Client -------------------------------
(***************************************************************************)
(* The command-line client of cmd/nitroctl with the node it talks to.      *)
(* Several commands run at the same time with one key, as scripts do.  A   *)
(* signed command asks for the chain id and for the nonce, signs, posts    *)
(* the transaction and reads the answer; deploy posts two.  Every request  *)
(* has 30 seconds.  An answer that comes too late, or never, is an error   *)
(* to the client, while the node may still serve the request, at any time  *)
(* or never: a request that the network loses is one it never serves.      *)
(*                                                                         *)
(* Of the node this module keeps what such a client can tell apart: one    *)
(* transaction at a time under writeMu, nonce and codes that are ahead in  *)
(* memory until the commit, and the rows of the accounts table, which are  *)
(* keyed by the address as it was spelled.  handleFaucet runs beside the   *)
(* transaction, in three steps.  A run is one start of the program.  The   *)
(* commands that only read print what a handler finds in the same memory   *)
(* GetNonce reads.                                                         *)
(***************************************************************************)
EXTENDS Integers, Sequences

CONSTANTS
    Clients,        \* programs that run at the same time
    Commands,       \* what they are asked to do
    Codes,          \* codes they store or instantiate
    MaxNonce,       \* bound on --nonce
    GasPrices,      \* values of --gas-price
    MinGasPrice,    \* what the node accepts
    ChainId,        \* the node's chain id
    Spellings,      \* ways to write the address of the key
    Canonical,      \* the way Address.Hex writes it
    FaucetAmounts,  \* amounts asked of the faucet
    MaxRuns,        \* bound on commands ever started
    Nil             \* none

ASSUME ClientAssumption ==
    /\ Commands \subseteq {"store", "instantiate", "execute", "deploy", "faucet"}
    /\ Canonical \in Spellings
    /\ FaucetAmounts \subseteq Nat
    /\ GasPrices \subseteq Nat /\ MinGasPrice \in Nat
    /\ MaxNonce \in Nat /\ MaxRuns \in Nat
    /\ Nil \notin Codes

Row == [as : Spellings, bal : Nat, nonce : Nat]
State == [bal : Nat, nonce : Nat, codes : SUBSET Codes]

\* A transaction as it was signed, with its signature; run and step say who
\* waits for the answer.
Kinds == {"store", "instantiate", "execute", "faucet"}
Request == [run : Nat, step : 1..2, client : Clients, kind : Kinds, nonce : Nat,
            code : Codes, price : Nat, chain : {ChainId},
            as : Spellings, amount : Nat]

\* A run's variables; seen, for the properties, is the number of transactions
\* on record when it started.
Locals == [run : Nat, cmd : Commands, step : 1..2, flagNonce : Nat \cup {Nil},
           nonce : Nat, code : Codes, price : Nat, as : Spellings, amount : Nat,
           seen : Nat]

Entry == [run : Nat, kind : Kinds, nonce : Nat, code : Codes, step : 1..2]
Report == [run : Nat, cmd : Commands, nonce : Nat, code : Codes]

\* A transaction between the call and the commit.
InFlight == [req : Request, snap : State]

ASSUME NilAssumption == Nil \notin InFlight /\ Nil \notin Nat

\* A faucet request that is being served; nonce once it has been read.
FaucetRequest == [req : {r \in Request : r.kind = "faucet"}, nonce : Nat \cup {Nil}]

VARIABLES
    pc,       \* what each client does next
    loc,      \* its variables, Nil when it is idle
    resp,     \* the answer on its way to it: TRUE for success
    reqs,     \* requests the node has yet to serve
    inflight, \* the transaction that holds writeMu, with the snapshot, or Nil
    faucets,  \* the faucet requests being served
    mem,      \* the account and the codes in the node's memory
    rows,     \* the rows of the accounts table, in rowid order
    codes,    \* the rows of the codes table
    log,      \* history: the transactions on record, in order
    reports,  \* history: the commands that ended well
    runs,     \* commands started so far
    astray,   \* history: what of the account the rows may have wrong
    booted,   \* history: transactions on record when the node last started
    rewound   \* history: a restart took over a nonce that was astray

history == <<astray, booted, rewound>>
node == <<inflight, faucets, mem, rows, codes, log, history>>
vars == <<pc, loc, resp, reqs, node, reports, runs>>

-----------------------------------------------------------------------------
(***************************************************************************)
(* The accounts table.                                                     *)
(***************************************************************************)
\* Mutant: the row keeps its place.
PersistRowInPlace(table, as, bal, nonce) ==
    IF \E i \in 1..Len(table) : table[i].as = as
    THEN [i \in 1..Len(table) |->
            IF table[i].as = as THEN [as |-> as, bal |-> bal, nonce |-> nonce]
            ELSE table[i]]
    ELSE Append(table, [as |-> as, bal |-> bal, nonce |-> nonce])

\* The table without its i-th row.
DeleteRow(table, i) ==
    [j \in 1..Len(table) - 1 |-> IF j < i THEN table[j] ELSE table[j + 1]]

\* INSERT OR REPLACE deletes the row with this key, if there is one, and
\* inserts one after all others.
PersistRow(table, as, bal, nonce) ==
    LET old == {i \in 1..Len(table) : table[i].as = as}
        rest == IF old = {} THEN table ELSE DeleteRow(table, CHOOSE i \in old : TRUE)
    IN  Append(rest, [as |-> as, bal |-> bal, nonce |-> nonce])

\* Mutant: the first row of an account wins.
RestoredFirstWins(table, stored) ==
    IF table = <<>> THEN [bal |-> 0, nonce |-> 0, codes |-> stored]
    ELSE [bal |-> table[1].bal, nonce |-> table[1].nonce, codes |-> stored]

\* restore() reads the rows in rowid order; each overwrites what the one
\* before it, of the same account, has set.
Restored(table, stored) ==
    IF table = <<>> THEN [bal |-> 0, nonce |-> 0, codes |-> stored]
    ELSE [bal |-> table[Len(table)].bal, nonce |-> table[Len(table)].nonce,
          codes |-> stored]

-----------------------------------------------------------------------------
(***************************************************************************)
(* The client.                                                             *)
(***************************************************************************)
Goto(c, label) == pc' = [pc EXCEPT ![c] = label]

Exit(c) ==
    /\ Goto(c, "idle")
    /\ loc' = [loc EXCEPT ![c] = Nil]
    /\ resp' = [resp EXCEPT ![c] = Nil]

\* handleStatus answers with the chain id the node was configured with.
FetchChainID == ChainId

\* signAndMarshal: SignTx and EncodeSignedTx.  The signature covers all that
\* is in the record.
SignAndMarshal(c, l, kind, nonce) ==
    [run |-> l.run, step |-> l.step, client |-> c, kind |-> kind, nonce |-> nonce,
     code |-> l.code, price |-> l.price, chain |-> FetchChainID, as |-> l.as,
     amount |-> l.amount]

CmdStore(c, l) == SignAndMarshal(c, l, "store", l.nonce)
CmdInstantiate(c, l) == SignAndMarshal(c, l, "instantiate", l.nonce)
CmdExecute(c, l) == SignAndMarshal(c, l, "execute", l.nonce)
\* Not signed: only the address, as it was typed, and the amount count.
CmdFaucet(c, l) ==
    [run |-> l.run, step |-> l.step, client |-> c, kind |-> "faucet", nonce |-> 0,
     code |-> l.code, price |-> l.price, chain |-> ChainId, as |-> l.as,
     amount |-> l.amount]
\* The second transaction takes the next nonce without asking again.
CmdDeploy(c, l) ==
    IF l.step = 1 THEN CmdStore(c, l)
    ELSE CmdInstantiate(c, [l EXCEPT !.nonce = @ + 1])

\* The body of the POST; how long it takes to reach the node is open.
Body(c, l) ==
    CASE l.cmd = "store"       -> CmdStore(c, l)
      [] l.cmd = "instantiate" -> CmdInstantiate(c, l)
      [] l.cmd = "execute"     -> CmdExecute(c, l)
      [] l.cmd = "deploy"      -> CmdDeploy(c, l)
      [] l.cmd = "faucet"      -> CmdFaucet(c, l)

Post(c, l) ==
    /\ loc' = [loc EXCEPT ![c] = l]
    /\ reqs' = reqs \cup {Body(c, l)}
    /\ Goto(c, "wait")

\* main: the flags and the command.
Start(c) ==
    /\ pc[c] = "idle" /\ runs < MaxRuns
    /\ \E cmd \in Commands, flag \in 0..MaxNonce \cup {Nil}, code \in Codes,
          price \in GasPrices, as \in Spellings, amount \in FaucetAmounts \cup {0} :
        /\ IF cmd = "faucet" THEN amount \in FaucetAmounts /\ flag = Nil
           ELSE amount = 0 /\ as = Canonical
        /\ LET l == [run |-> runs + 1, cmd |-> cmd, step |-> 1, flagNonce |-> flag,
                     nonce |-> 0, code |-> code, price |-> price, as |-> as,
                     amount |-> amount, seen |-> IF flag = Nil THEN Len(log) ELSE 0]
           IN  IF cmd = "faucet" THEN Post(c, l)
               ELSE /\ loc' = [loc EXCEPT ![c] = l]
                    /\ Goto(c, "fetch")
                    /\ UNCHANGED reqs
    /\ runs' = runs + 1
    /\ UNCHANGED <<resp, node, reports>>

\* getNonce, behind fetchChainID, and the POST.  handleAccount reads the live
\* memory and takes no lock, so the nonce may be that of a transaction in
\* flight.
GetNonce(c) ==
    /\ pc[c] = "fetch"
    /\ Post(c, [loc[c] EXCEPT !.nonce =
                    IF loc[c].flagNonce = Nil THEN mem.nonce ELSE loc[c].flagNonce])
    /\ UNCHANGED <<resp, node, reports, runs>>

\* A GET that fails or times out.
FetchFails(c) ==
    /\ pc[c] = "fetch"
    /\ Exit(c)
    /\ UNCHANGED <<reqs, node, reports, runs>>

\* The connection breaks or 30 seconds are over: an error, whatever became
\* of the request.
Timeout(c) ==
    /\ pc[c] = "wait"
    /\ Exit(c)
    /\ UNCHANGED <<reqs, node, reports, runs>>

Reported(c) == [run |-> loc[c].run, cmd |-> loc[c].cmd, nonce |-> loc[c].nonce,
                code |-> loc[c].code]

NextStep(c) ==
    /\ Post(c, [loc[c] EXCEPT !.step = 2])
    /\ resp' = [resp EXCEPT ![c] = Nil]
    /\ UNCHANGED reports

\* Mutant: the status of the answer is not looked at.
ReadResponseAnyStatus(c) ==
    /\ pc[c] = "wait" /\ resp[c] # Nil
    /\ IF loc[c].cmd = "deploy" /\ loc[c].step = 1 THEN NextStep(c)
       ELSE /\ reports' = reports \cup {Reported(c)}
            /\ Exit(c) /\ UNCHANGED reqs
    /\ UNCHANGED <<node, runs>>

\* readResponse, and what the command does with a good answer.
ReadResponse(c) ==
    /\ pc[c] = "wait" /\ resp[c] # Nil
    /\ CASE resp[c] = FALSE ->
              Exit(c) /\ UNCHANGED <<reqs, reports>>
         [] resp[c] = TRUE /\ loc[c].cmd = "deploy" /\ loc[c].step = 1 ->
              NextStep(c)
         [] OTHER ->
              /\ reports' = reports \cup {Reported(c)}
              /\ Exit(c) /\ UNCHANGED reqs
    /\ UNCHANGED <<node, runs>>

-----------------------------------------------------------------------------
(***************************************************************************)
(* The node.                                                               *)
(***************************************************************************)
\* The answer finds the client waiting for it, or is lost.
Waiting(r) ==
    /\ pc[r.client] = "wait"
    /\ loc[r.client].run = r.run /\ loc[r.client].step = r.step

Answer(r, ok) ==
    resp' = IF Waiting(r) THEN [resp EXCEPT ![r.client] = ok] ELSE resp

\* parseSigned: this client's signatures are good and it asked this node for
\* the chain id; the gas price is the user's.
ParseSigned(r) == r.chain = ChainId /\ r.price >= MinGasPrice

\* What a row written now may leave wrong in the table.  A row made of the
\* live memory puts everything right, but for the row a faucet request has
\* yet to write.
Settled == IF faucets = {} THEN {} ELSE astray

\* What a transaction that begins while the faucet is served puts at risk:
\* the faucet's row may have the nonce of another moment, and a rollback may
\* take back the balance of the faucet.
BesideFaucet == IF faucets = {} THEN astray ELSE {"nonce", "balance"}

\* The call: nonce and code are ahead of the tables.  What follows decides
\* whether it succeeded.
Begin(r) ==
    /\ inflight = Nil /\ r.kind # "faucet"
    /\ ParseSigned(r) /\ r.nonce = mem.nonce
    /\ r.kind = "instantiate" => r.code \in mem.codes
    /\ mem' = [mem EXCEPT !.nonce = @ + 1,
                          !.codes = IF r.kind = "store" THEN @ \cup {r.code} ELSE @]
    /\ inflight' = [req |-> r, snap |-> mem]
    /\ astray' = BesideFaucet
    /\ reqs' = reqs \ {r}
    /\ UNCHANGED <<pc, loc, resp, faucets, rows, codes, log, reports, runs, booted,
                   rewound>>

\* Refused by parseSigned or, for the faucet, as malformed; or, under the
\* lock, for its nonce, or failed free of charge.
Fail(r) ==
    /\ inflight = Nil \/ r.kind = "faucet" \/ ~ParseSigned(r)
    /\ Answer(r, FALSE)
    /\ reqs' = reqs \ {r}
    /\ UNCHANGED <<pc, loc, node, reports, runs>>

\* Mutant: a fee one above the balance is accepted.
CanPayAlmost(bal, fee) == fee <= bal + 1
CanPay(bal, fee) == fee <= bal

\* A call that failed in the contract is taken back, keeps its nonce and
\* costs gas.  The row is written outside any SQL transaction; that it could
\* not be written is ignored.
FailCharged ==
    /\ inflight # Nil /\ inflight.req.kind \in {"instantiate", "execute"}
    /\ CanPay(inflight.snap.bal, 1)
    /\ mem' = [inflight.snap EXCEPT !.bal = @ - 1]
    /\ \/ /\ rows' = PersistRow(rows, Canonical, mem'.bal, mem'.nonce)
          /\ astray' = Settled
       \/ /\ rows' = rows
          /\ astray' = astray \cup {"balance"}
    /\ Answer(inflight.req, FALSE)
    /\ inflight' = Nil
    /\ UNCHANGED <<pc, loc, reqs, faucets, codes, log, reports, runs, booted, rewound>>

Recorded(r) == [run |-> r.run, kind |-> r.kind, nonce |-> r.nonce, code |-> r.code,
                step |-> r.step]

\* Mutant: the row is made of the nonce before the transaction.
CommitOldNonce ==
    /\ inflight # Nil
    /\ mem' = mem
    /\ rows' = PersistRow(rows, Canonical, mem.bal, inflight.snap.nonce)
    /\ codes' = mem.codes
    /\ log' = Append(log, Recorded(inflight.req))
    /\ astray' = Settled
    /\ Answer(inflight.req, TRUE)
    /\ inflight' = Nil
    /\ UNCHANGED <<pc, loc, reqs, faucets, reports, runs, booted, rewound>>

\* The fee is paid, the rows are written and the SQL transaction commits.
Commit ==
    /\ inflight # Nil
    /\ \E fee \in 0..1 :
        /\ CanPay(mem.bal, fee)
        /\ mem' = [mem EXCEPT !.bal = @ - fee]
    /\ rows' = PersistRow(rows, Canonical, mem'.bal, mem.nonce)
    /\ codes' = mem.codes
    /\ log' = Append(log, Recorded(inflight.req))
    /\ astray' = Settled
    /\ Answer(inflight.req, TRUE)
    /\ inflight' = Nil
    /\ UNCHANGED <<pc, loc, reqs, faucets, reports, runs, booted, rewound>>

\* Mutant: the memory is not restored.
AbortKeepsMemory ==
    /\ inflight # Nil
    /\ Answer(inflight.req, FALSE)
    /\ inflight' = Nil
    /\ UNCHANGED <<pc, loc, reqs, faucets, mem, rows, codes, log, reports, runs, history>>

\* The call failed free of charge, the fee cannot be paid, or the database
\* fails: the memory goes back, with what a faucet request has set meanwhile.
Abort ==
    /\ inflight # Nil
    /\ mem' = inflight.snap
    /\ Answer(inflight.req, FALSE)
    /\ inflight' = Nil
    /\ UNCHANGED <<pc, loc, reqs, faucets, rows, codes, log, reports, runs, history>>

\* handleFaucet takes no lock: it sets the balance whoever is at work ...
FaucetSet(r) ==
    /\ r.kind = "faucet"
    /\ mem' = [mem EXCEPT !.bal = r.amount]
    /\ faucets' = faucets \cup {[req |-> r, nonce |-> Nil]}
    /\ astray' = astray \cup (IF inflight # Nil THEN {"nonce", "balance"}
                              ELSE IF faucets # {} THEN {"balance"} ELSE {})
    /\ reqs' = reqs \ {r}
    /\ UNCHANGED <<pc, loc, resp, inflight, rows, codes, log, reports, runs, booted,
                   rewound>>

\* ... reads the nonce ...
FaucetRead(f) ==
    /\ f.nonce = Nil
    /\ faucets' = (faucets \ {f}) \cup {[f EXCEPT !.nonce = mem.nonce]}
    /\ UNCHANGED <<pc, loc, resp, reqs, inflight, mem, rows, codes, log, reports, runs,
                   history>>

\* ... and writes a row of what it was asked for and what it has read, under
\* the address as the request spells it; or fails to, with the memory changed.
FaucetWrite(f) ==
    /\ f.nonce # Nil
    /\ \/ /\ rows' = PersistRow(rows, f.req.as, f.req.amount, f.nonce)
          /\ Answer(f.req, TRUE)
          /\ UNCHANGED astray
       \/ /\ Answer(f.req, FALSE)
          /\ astray' = astray \cup {"balance"}
          /\ UNCHANGED rows
    /\ faucets' = faucets \ {f}
    /\ UNCHANGED <<pc, loc, reqs, inflight, mem, codes, log, reports, runs, booted, rewound>>

\* The process stops and starts.  What it was serving is gone; a request on
\* its way reaches the next process, or nobody.
Restart ==
    /\ mem' = Restored(rows, codes)
    /\ inflight' = Nil
    /\ faucets' = {}
    /\ astray' = {}
    /\ booted' = Len(log)
    /\ rewound' = (rewound \/ "nonce" \in astray)
    /\ UNCHANGED <<pc, loc, resp, reqs, rows, codes, log, reports, runs>>

-----------------------------------------------------------------------------
Init ==
    /\ pc = [c \in Clients |-> "idle"]
    /\ loc = [c \in Clients |-> Nil]
    /\ resp = [c \in Clients |-> Nil]
    /\ reqs = {}
    /\ inflight = Nil
    /\ mem = Restored(<<>>, {})
    /\ rows = <<>>
    /\ codes = {}
    /\ log = <<>>
    /\ reports = {}
    /\ runs = 0
    /\ faucets = {}
    /\ astray = {}
    /\ booted = 0
    /\ rewound = FALSE

\* What a running client does by itself.
Proceed(c) ==
    GetNonce(c) \/ FetchFails(c) \/ Timeout(c) \/ ReadResponse(c)

Next ==
    \/ \E c \in Clients : Start(c) \/ Proceed(c)
    \/ \E r \in reqs : Begin(r) \/ Fail(r) \/ FaucetSet(r)
    \/ \E f \in faucets : FaucetRead(f) \/ FaucetWrite(f)
    \/ FailCharged \/ Commit \/ Abort \/ Restart

Spec == Init /\ [][Next]_vars

-----------------------------------------------------------------------------
(***************************************************************************)
(* Properties.                                                             *)
(***************************************************************************)
TypeOK ==
    /\ pc \in [Clients -> {"idle", "fetch", "wait"}]
    /\ loc \in [Clients -> Locals \cup {Nil}]
    /\ resp \in [Clients -> BOOLEAN \cup {Nil}]
    /\ reqs \subseteq Request
    /\ inflight \in InFlight \cup {Nil}
    /\ mem \in State
    /\ rows \in Seq(Row)
    /\ codes \subseteq Codes
    /\ log \in Seq(Entry)
    /\ reports \subseteq Report
    /\ runs \in Nat
    /\ faucets \subseteq FaucetRequest
    /\ astray \subseteq {"nonce", "balance"}
    /\ booted \in 0..Len(log)
    /\ rewound \in BOOLEAN

Entries(run) == {i \in 1..Len(log) : log[i].run = run}

\* A command that reports success has had exactly its own transactions put on
\* record, once each: the one it signed, or for deploy the store and then the
\* instantiate, with the nonces it signed; also when answers come late, other
\* commands use the same key and the node restarts in between (readResponse).
\* Nothing of another command lies between the two, unless a faucet's row
\* brought an old nonce back at a restart.
OkMeansCommitted ==
    \A p \in reports :
        /\ p.cmd \in {"store", "instantiate", "execute"} =>
            \E i \in 1..Len(log) :
                /\ Entries(p.run) = {i}
                /\ log[i].kind = p.cmd /\ log[i].code = p.code
                /\ log[i].nonce = p.nonce
        /\ p.cmd = "deploy" =>
            \E i, j \in 1..Len(log) :
                /\ Entries(p.run) = {i, j} /\ i < j
                /\ log[i].kind = "store" /\ log[i].code = p.code
                /\ log[i].nonce = p.nonce
                /\ log[j].kind = "instantiate" /\ log[j].code = p.code
                /\ log[j].nonce = p.nonce + 1
                /\ rewound \/ j = i + 1

\* The second half of a deploy is on record only behind its first half, whose
\* nonce it follows, whether the command succeeds, times out or races others
\* (cmdDeploy); and right behind it, unless a faucet's row brought an old
\* nonce back at a restart.
DeployInOrder ==
    \A j \in 1..Len(log) :
        log[j].step = 2 =>
            \E i \in 1..Len(log) :
                /\ i < j /\ log[i].run = log[j].run
                /\ log[i].kind = "store" /\ log[i].code = log[j].code
                /\ log[i].nonce = log[j].nonce - 1
                /\ rewound \/ i = j - 1

\* However often a user repeats a command that timed out with the same
\* --nonce, it takes effect at most once in the life of a node, whatever the
\* faucet does beside it; and once and for all, restarts and rows under
\* several spellings included, unless the node was restarted between a
\* transaction that the faucet overlapped and the next row written alone
\* (validateNonce, handleFaucet, restore).
RetryWithNonceSafe ==
    \A i, j \in 1..Len(log) :
        i < j /\ log[i].nonce = log[j].nonce => rewound /\ i <= booted

\* A nonce the node hands out is not older than the transactions that were on
\* record when the command started, and at most one ahead of the record: the
\* one a transaction in flight may still give back (handleAccount).  A
\* faucet's row that brings an old nonce back is the exception.
FetchedNonceNear ==
    rewound \/
    \A c \in Clients :
        pc[c] = "wait" /\ loc[c].cmd # "faucet" /\ loc[c].flagNonce = Nil =>
            /\ loc[c].seen <= loc[c].nonce
            /\ loc[c].nonce <= Len(log) + 1

\* Between two transactions a restart finds the codes as they are in memory,
\* always; the nonce, although the account may have several rows, each under
\* its own spelling, unless a faucet request ran into a transaction after the
\* last row written alone; and the balance, unless two requests ran into each
\* other like that, or a row could not be written (persistBalance, restore).
RowsRestoreAccount ==
    inflight = Nil =>
        LET found == Restored(rows, codes) IN
        /\ found.codes = mem.codes
        /\ "nonce" \notin astray => found.nonce = mem.nonce
        /\ astray = {} /\ faucets = {} => found.bal = mem.bal
=============================================================================
