-------------------------------- MODULE Host --------------------------------
(***************************************************************************)
(* What a running contract finds behind its imports: the storage adapters  *)
(* of storage/, the KV wrapper, iterators and querier of runtime/host.go,  *)
(* the gas meter of runtime/gas.go, and Query of runtime/vm.go.            *)
(*                                                                         *)
(* Two goroutines use them at the same time: the transaction that holds    *)
(* writeMu, whose runs write and between whose runs the VM snapshots and   *)
(* restores the storage, and a /query request, which takes no lock.  A run *)
(* of the transaction may query other contracts, which query others: the   *)
(* meters of that chain are a stack; the storage such a query reads is     *)
(* read as a /query request reads it.  Keys are numbers: their order is    *)
(* that of the byte strings.                                               *)
(***************************************************************************)
EXTENDS Integers, Sequences, FiniteSets

CONSTANTS
    Contracts,     \* addresses with storage
    MaxKey,        \* keys are 1..MaxKey
    Values,        \* values contracts write
    Nothing,       \* no value, no bound, no iterator, no error
    Maps,          \* identities of Go maps the memory adapter may allocate
    MaxSnaps,      \* bound on live snapshots
    MaxQueries,    \* bound on queries nested in a run; the code has none
    Limits,        \* gas limits of runs
    ReadCost,      \* GasCostStorageRead, what a bank query costs
    MaxUint64      \* the largest uint64

ASSUME HostAssumption ==
    /\ Nothing \notin Values \cup Int
    /\ IsFiniteSet(Maps) /\ Maps # {}
    /\ MaxKey \in Nat
    /\ MaxSnaps \in Nat /\ MaxSnaps < Cardinality(Maps)
    /\ MaxQueries \in Nat
    /\ MaxUint64 \in Nat
    /\ Limits \subseteq 0..MaxUint64
    /\ ReadCost \in 0..MaxUint64

Keys == 1..MaxKey
Bound == Keys \cup {Nothing}
Map == [Keys -> Values \cup {Nothing}]
Data == [Contracts -> Map]
Orders == {"ascending", "descending"}
Goroutines == {"tx", "query"}

\* An open iterator: the pairs it has yet to yield and those it yielded; all
\* is what lay between its bounds when it was opened, for the properties.
Iter == [rest : Seq(Keys \X Values), got : Seq(Keys \X Values),
         all : SUBSET (Keys \X Values), order : Orders]

\* The KV wrapper of a run; frozen remembers the storage of the contract when
\* a writing run captured its first error.
Wrapper == [addr : Contracts, err : BOOLEAN, iter : Iter \cup {Nothing},
            frozen : Map \cup {Nothing}]

\* A gas meter; spent is the true sum of the charges it took.
Meter == [limit : Nat, consumed : 0..MaxUint64, out : BOOLEAN, spent : Nat]

VARIABLES
    adapter, \* the adapter the VM was created with
    heap,   \* the contents of every map the memory adapter allocated
    data,   \* Store.data: the map in use
    snaps,  \* the VM's live snapshots, innermost last, with their contents
    kv,     \* the KV wrapper of each goroutine's run, or Nothing
    meters  \* the meters of the transaction's run and of its nested queries

vars == <<adapter, heap, data, snaps, kv, meters>>

-----------------------------------------------------------------------------
(***************************************************************************)
(* The gas meter.                                                          *)
(***************************************************************************)
\* Mutant: the sum wraps around.
ConsumeGasWraps(m, amount) ==
    LET next == (m.consumed + amount) % (MaxUint64 + 1)
    IN  [m EXCEPT !.consumed = next, !.out = next > m.limit]

\* A charge whose sum overflows is refused and leaves no trace, so that the
\* run may go on; beyond the limit the run is out of gas.
ConsumeGas(m, amount) ==
    LET next == (m.consumed + amount) % (MaxUint64 + 1)
    IN  IF next < m.consumed THEN m
        ELSE [m EXCEPT !.consumed = next, !.out = next > m.limit]

Spend(m, amount) ==
    [ConsumeGas(m, amount) EXCEPT
        !.spent = IF @ + amount > MaxUint64 THEN @ ELSE @ + amount]

GasRemaining(m) == IF m.consumed > m.limit THEN 0 ELSE m.limit - m.consumed

NewGasMeter(limit) ==
    [limit |-> limit, consumed |-> 0, out |-> FALSE, spent |-> 0]

-----------------------------------------------------------------------------
(***************************************************************************)
(* Range of the adapters: keys from start, before end, sorted, with copies *)
(* of their values.                                                        *)
(***************************************************************************)
\* Mutant: the end is included.
InRangeClosed(k, start, end) ==
    (start # Nothing => k >= start) /\ (end # Nothing => k <= end)
InRange(k, start, end) ==
    (start # Nothing => k >= start) /\ (end # Nothing => k < end)

Sorted(S) ==
    [i \in 1..Cardinality(S) |->
        CHOOSE k \in S : Cardinality({j \in S : j < k}) = i - 1]

Reversed(s) == [i \in 1..Len(s) |-> s[Len(s) + 1 - i]]

RangeOf(m, start, end, order) ==
    LET keys == Sorted({k \in Keys : m[k] # Nothing /\ InRange(k, start, end)})
        dir  == IF order = "descending" THEN Reversed(keys) ELSE keys
    IN  [i \in 1..Len(dir) |-> <<dir[i], m[dir[i]]>>]

\* What Range is to list, for the properties.
Between(m, start, end) ==
    {<<k, m[k]>> : k \in {j \in Keys : /\ m[j] # Nothing
                                       /\ start = Nothing \/ start <= j
                                       /\ end = Nothing \/ j < end}}

emptyIterator == [rest |-> <<>>, got |-> <<>>, all |-> {}, order |-> "ascending"]

-----------------------------------------------------------------------------
(***************************************************************************)
(* Snapshots.  The VM takes and restores them between two runs of the      *)
(* transaction; a restored or dropped snapshot is not used again.  Only    *)
(* the memory adapter has them, and only the sqlite one returns errors,    *)
(* whose table is a map here that nobody copies.                           *)
(***************************************************************************)
Snapshotable == adapter = "memory"
Fallible == adapter = "sqlite"

Live == {data} \cup {snaps[i].map : i \in 1..Len(snaps)}

Empty == [c \in Contracts |-> [k \in Keys |-> Nothing]]
Last(s) == s[Len(s)]
Front(s) == SubSeq(s, 1, Len(s) - 1)

\* Mutant: the snapshot is the map in use.
SnapshotShallow ==
    /\ Snapshotable /\ kv["tx"] = Nothing /\ Len(snaps) < MaxSnaps
    /\ snaps' = Append(snaps, [map |-> data, saved |-> heap[data]])
    /\ UNCHANGED <<adapter, heap, data, kv, meters>>

\* deepCopy makes a new map.
Snapshot ==
    /\ Snapshotable /\ kv["tx"] = Nothing /\ Len(snaps) < MaxSnaps
    /\ \E new \in Maps \ Live :
        /\ heap' = [heap EXCEPT ![new] = heap[data]]
        /\ snaps' = Append(snaps, [map |-> new, saved |-> heap[data]])
    /\ UNCHANGED <<adapter, data, kv, meters>>

\* The snapshot's own map is used from now on; the other is garbage.
Restore ==
    /\ kv["tx"] = Nothing /\ snaps # <<>>
    /\ data' = Last(snaps).map
    /\ snaps' = Front(snaps)
    /\ heap' = [heap EXCEPT ![data] = Empty]
    /\ UNCHANGED <<adapter, kv, meters>>

\* What the snapshot was taken for succeeded; its map is garbage.
DropSnapshot ==
    /\ kv["tx"] = Nothing /\ snaps # <<>>
    /\ snaps' = Front(snaps)
    /\ heap' = [heap EXCEPT ![Last(snaps).map] = Empty]
    /\ UNCHANGED <<adapter, data, kv, meters>>

-----------------------------------------------------------------------------
(***************************************************************************)
(* A run and its KV wrapper.  A run that is out of gas is at its end.      *)
(***************************************************************************)
Running(g) == kv[g] # Nothing /\ (g = "tx" => Len(meters) = 1 /\ ~meters[1].out)
Contents(g) == heap[data][kv[g].addr]

newContractKVStore(addr) ==
    [addr |-> addr, err |-> FALSE, iter |-> Nothing, frozen |-> Nothing]

\* executeInternal, instantiateInternal and invokeReply, or a /query request.
Enter(g) ==
    /\ kv[g] = Nothing
    /\ \E addr \in Contracts : kv' = [kv EXCEPT ![g] = newContractKVStore(addr)]
    /\ IF g = "tx" THEN \E limit \in Limits : meters' = <<NewGasMeter(limit)>>
       ELSE UNCHANGED meters
    /\ UNCHANGED <<adapter, heap, data, snaps>>

\* The adapter returned an error: the wrapper keeps the first one.
Capture(g) ==
    /\ Fallible
    /\ kv' = [kv EXCEPT ![g].err = TRUE,
                        ![g].frozen = IF g = "tx" THEN Contents(g) ELSE Nothing]
    /\ UNCHANGED <<adapter, heap, data, snaps, meters>>

\* A Get that fails; after an error the adapter is not asked any more.
GetFails(g) ==
    /\ Running(g) /\ ~kv[g].err
    /\ Capture(g)

\* Mutant: Set does not look at the captured error.
PutAfterError(k, v) ==
    /\ Running("tx")
    /\ \/ /\ heap' = [heap EXCEPT ![data][kv["tx"].addr][k] = v]
          /\ UNCHANGED <<adapter, data, snaps, kv, meters>>
       \/ Capture("tx")

\* Set, and Delete when v is Nothing; after an error they do nothing.  Only
\* the transaction writes: wasmvm refuses writes in a query.
Put(k, v) ==
    /\ Running("tx") /\ ~kv["tx"].err
    /\ \/ /\ heap' = [heap EXCEPT ![data][kv["tx"].addr][k] = v]
          /\ UNCHANGED <<adapter, data, snaps, kv, meters>>
       \/ Capture("tx")

\* Iterator and ReverseIterator load everything at once, also after an error.
Iterate(g, start, end, order) ==
    /\ Running(g) /\ kv[g].iter = Nothing
    /\ kv' = [kv EXCEPT ![g].iter =
                [rest |-> RangeOf(Contents(g), start, end, order), got |-> <<>>,
                 all |-> Between(Contents(g), start, end), order |-> order]]
    /\ UNCHANGED <<adapter, heap, data, snaps, meters>>

\* An error of Range is not captured: the run goes on with no pairs.
IterateFails(g) ==
    /\ Running(g) /\ kv[g].iter = Nothing /\ Fallible
    /\ kv' = [kv EXCEPT ![g].iter = emptyIterator]
    /\ UNCHANGED <<adapter, heap, data, snaps, meters>>

\* Mutant: the value is read when the iterator gets there.
NextPairLazy(g) ==
    /\ Running(g) /\ kv[g].iter # Nothing /\ kv[g].iter.rest # <<>>
    /\ LET k == Head(kv[g].iter.rest)[1] IN
        kv' = [kv EXCEPT ![g].iter.rest = Tail(@),
                         ![g].iter.got = Append(@, <<k, Contents(g)[k]>>)]
    /\ UNCHANGED <<adapter, heap, data, snaps, meters>>

NextPair(g) ==
    /\ Running(g) /\ kv[g].iter # Nothing /\ kv[g].iter.rest # <<>>
    /\ kv' = [kv EXCEPT ![g].iter.rest = Tail(@),
                        ![g].iter.got = Append(@, Head(kv[g].iter.rest))]
    /\ UNCHANGED <<adapter, heap, data, snaps, meters>>

CloseIter(g) ==
    /\ Running(g) /\ kv[g].iter # Nothing
    /\ kv' = [kv EXCEPT ![g].iter = Nothing]
    /\ UNCHANGED <<adapter, heap, data, snaps, meters>>

\* The entry point returns.
Finish(g) ==
    /\ kv[g] # Nothing
    /\ kv' = [kv EXCEPT ![g] = Nothing]
    /\ IF g = "tx" THEN Len(meters) = 1 /\ meters' = <<>> ELSE UNCHANGED meters
    /\ UNCHANGED <<adapter, heap, data, snaps>>

-----------------------------------------------------------------------------
(***************************************************************************)
(* The querier.                                                            *)
(***************************************************************************)
BankQuery ==
    /\ meters # <<>> /\ ~Last(meters).out
    /\ meters' = Append(Front(meters), Spend(Last(meters), ReadCost))
    /\ UNCHANGED <<adapter, heap, data, snaps, kv>>

\* wasmQuery: Query runs the other contract with the gas wasmvm has left for
\* this one, at most what its meter has left.
SmartQuery ==
    /\ meters # <<>> /\ ~Last(meters).out /\ Len(meters) <= MaxQueries
    /\ \E limit \in 0..GasRemaining(Last(meters)) :
        meters' = Append(meters, NewGasMeter(limit))
    /\ UNCHANGED <<adapter, heap, data, snaps, kv>>

\* What wasmvm reports as used: never above the limit; whether it includes
\* what the querier's meter counted is the library's business.
GasUsed(m) == 0..m.limit

\* Query returns, with an error or not, and the caller's meter is charged.
SmartQueryReturns ==
    /\ Len(meters) > 1
    /\ \E used \in GasUsed(Last(meters)) :
        meters' = Append(Front(Front(meters)),
                         Spend(Last(Front(meters)), used))
    /\ UNCHANGED <<adapter, heap, data, snaps, kv>>

-----------------------------------------------------------------------------
Init ==
    /\ adapter \in {"memory", "sqlite"}
    /\ heap = [m \in Maps |-> Empty]
    /\ data \in Maps
    /\ snaps = <<>>
    /\ kv = [g \in Goroutines |-> Nothing]
    /\ meters = <<>>

Next ==
    \/ Snapshot \/ Restore \/ DropSnapshot
    \/ \E g \in Goroutines :
        \/ Enter(g) \/ GetFails(g) \/ IterateFails(g) \/ NextPair(g)
        \/ CloseIter(g) \/ Finish(g)
        \/ \E start, end \in Bound, order \in Orders : Iterate(g, start, end, order)
    \/ \E k \in Keys, v \in Values \cup {Nothing} : Put(k, v)
    \/ BankQuery \/ SmartQuery \/ SmartQueryReturns

Spec == Init /\ [][Next]_vars

-----------------------------------------------------------------------------
(***************************************************************************)
(* Properties.                                                             *)
(***************************************************************************)
TypeOK ==
    /\ adapter \in {"memory", "sqlite"}
    /\ heap \in [Maps -> Data]
    /\ data \in Maps
    /\ snaps \in Seq([map : Maps, saved : Data])
    /\ kv \in [Goroutines -> Wrapper \cup {Nothing}]
    /\ meters \in Seq(Meter)

\* A snapshot that may still be restored has the contents it was taken with,
\* whatever the runs since have written and whichever inner snapshots were
\* restored in between: Restore hands out the snapshot's own map, so no two
\* of the maps in use may be the same.
SnapshotsIntact ==
    \A i \in 1..Len(snaps) : heap[snaps[i].map] = snaps[i].saved

Before(order, j, k) == IF order = "ascending" THEN j < k ELSE j > k

\* An iterator that Range opened yields exactly the pairs that lay between
\* its bounds then, each once and in its order, although this run, a
\* concurrent transaction or a rollback changed the storage since (Range,
\* sliceIterator).  When Range fails the contract is given emptyIterator
\* instead, of which this says nothing more than that it is empty.
IteratorsExact ==
    \A g \in Goroutines :
        kv[g] # Nothing /\ kv[g].iter # Nothing =>
            LET it == kv[g].iter
                pairs == it.got \o it.rest
            IN  /\ {pairs[i] : i \in 1..Len(pairs)} = it.all
                /\ \A i, j \in 1..Len(pairs) :
                    i < j => Before(it.order, pairs[i][1], pairs[j][1])

\* A run whose storage access failed changes nothing any more, so the writes
\* a reply keeps after an error nobody looked at are those before it.
ErrorsFreeze ==
    kv["tx"] # Nothing /\ kv["tx"].err => Contents("tx") = kv["tx"].frozen

\* A meter reports exactly the sum of the charges it took and is out of gas
\* exactly when that sum is over its limit, also after a charge that would
\* have left 64 bits; and a query is given no more than what is left, so what
\* a chain of queries is charged never exceeds what the run that started it
\* was given, whatever wasmvm reports as used.
GasExact ==
    \A i \in 1..Len(meters) :
        /\ meters[i].consumed = meters[i].spent
        /\ meters[i].out <=> meters[i].spent > meters[i].limit
        /\ i > 1 => meters[i - 1].spent + meters[i].limit <= meters[i - 1].limit
=============================================================================
