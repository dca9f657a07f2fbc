------------------------------- MODULE Ledger -------------------------------
(***************************************************************************)
(* What the node promises its clients: a ledger on record that changes in  *)
(* two ways only.  A signed transaction takes effect as a whole, at the    *)
(* next nonce of its sender and under the next operation number; or a call *)
(* that failed costs its sender a fee.  Requests that fail or are only     *)
(* simulated, database errors and restarts are steps in which nothing      *)
(* happens.                                                                *)
(***************************************************************************)
EXTENDS Integers, Sequences

CONSTANTS
    Users,     \* accounts that sign transactions
    Contract,  \* addresses of contracts, numbered in the order of creation
    Codes,     \* codes a transaction may store
    Genesis    \* the balances at the start

VARIABLES
    bal,        \* balance of every account
    nonce,      \* the next nonce of every user
    contracts,  \* the contracts that exist
    codes,      \* the codes that are stored
    store,      \* contract storage: the transactions whose writes it holds
    opSeq,      \* the number of the next operation
    events,     \* the events on record, each under its operation's number
    log         \* the transactions that took effect, in order

vars == <<bal, nonce, contracts, codes, store, opSeq, events, log>>

Addr == Users \cup Contract

\* A call moves at most one token in this model; the rest is gas.
Move(b, from, to, amt) == [[b EXCEPT ![from] = @ - amt] EXCEPT ![to] = @ + amt]
Transfers(b) ==
    {b} \cup {Move(b, from, to, 1) : from \in {a \in Addr : b[a] >= 1}, to \in Addr}

\* Tokens are burned as gas and never made.
Burns(b, c) == \A a \in Addr : c[a] \in 0..b[a]

-----------------------------------------------------------------------------
Init ==
    /\ bal = Genesis
    /\ nonce = [u \in Users |-> 0]
    /\ contracts = {}
    /\ codes = {}
    /\ store = {}
    /\ opSeq = 1
    /\ events = {}
    /\ log = <<>>

\* The sender's next nonce is used up and the operation is numbered.
Accept(u) ==
    /\ nonce' = [nonce EXCEPT ![u] = @ + 1]
    /\ opSeq' = opSeq + 1
    /\ log' = Append(log, <<u, nonce[u]>>)

\* An execute or instantiate: all of its effects, and its events, at once.
CallTransaction(u) ==
    /\ Accept(u)
    /\ store' = store \cup {<<u, nonce[u]>>}
    /\ events' = events \cup {<<opSeq, <<u, nonce[u]>>>>}
    /\ \/ UNCHANGED contracts
       \/ \E c \in Contract : contracts = 1..c - 1 /\ contracts' = 1..c
    /\ \E b \in Transfers(bal) : Burns(b, bal')
    /\ UNCHANGED codes

StoreTransaction(u) ==
    /\ Accept(u)
    /\ \E c \in Codes : codes' = codes \cup {c}
    /\ Burns(bal, bal')
    /\ UNCHANGED <<contracts, store, events>>

\* The fee of a call that failed.
Charge(u) ==
    /\ Burns(bal, bal')
    /\ \A a \in Addr \ {u} : bal'[a] = bal[a]
    /\ UNCHANGED <<nonce, contracts, codes, store, opSeq, events, log>>

Next ==
    \E u \in Users : CallTransaction(u) \/ StoreTransaction(u) \/ Charge(u)

Spec == Init /\ [][Next]_vars
=============================================================================
