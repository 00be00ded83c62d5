# SYMBIOMON: specifications, model checking and proofs

This directory holds TLA+ modules for SYMBIOMON, the metric service for Mochi
composed services, and for LULESH, the MPI program the repository carries as its
example of an application to monitor (`examples/lulesh`). The modules are
translated from the C and C++ code; TLC checks them on small instances and TLAPS
proves the main results for every value of their constants. Paths below leave
out the leading `src/`; `client.c` and the like are in `src/`, `lulesh*.cc` in
`examples/lulesh/`.

## 1. The system

A *provider* lives in a server process and keeps *metrics*. Each metric has a
type (counter, timer or gauge), a mutex, a buffer of `METRIC_BUFFER_SIZE`
samples and the index of the next free one. ULTs (Argobots threads, on any
number of execution streams) of that process append samples. Remote *clients*
fetch the latest samples by an RPC whose handler runs as one more ULT of the
provider's process. Optionally the provider reduces each metric to one value
and stores it in an external key-value service, the *aggregator*.

| component | state | operations | source |
|---|---|---|---|
| metric sample buffer | `type`, `buffer`, `buffer_index`, `metric_mutex` | `symbiomon_metric_update`, `..._update_gauge_by_fixed_amount` | `src/client.c`, `src/types.h` |
| remote metric fetch | caller's memory and bulk handle, the RPC, the handler's locals | `symbiomon_remote_metric_fetch`, `symbiomon_metric_fetch_ult` | `src/client.c`, `src/provider.c` |
| metric registry | uthash table of metrics, `num_metrics` | create, create with reduction, destroy, destroy all, list (file and RPC), find | `src/provider.c` |
| metric identifiers | none | djb2 hash, XOR of namespace, name and tags | `symbiomon-common.h` |
| reduction, aggregation | per metric `reduction_op`, `stringify`, `aggregator_id`; the external store | reduce, reduce all, batched reduce, global reduce | `src/provider.c` |
| client and metric handles | `num_metric_handles`, `refcount` | init, finalize, create, ref_incr, release | `src/client.c` |
| provider lifecycle | registered RPCs, the finalize callback | register, destroy, finalize; bedrock entry points | `src/provider.c`, `src/bedrock-module.c` |
| histogram, dumps | none | bucket computation, file output | `src/client.c` |
| uthash table | buckets, chains, application order, expansion counters | add, add in order, replace, find, delete, iterate, sort, clear | `src/uthash.h` |
| LULESH domain | index arrays of a rank's mesh, boundary conditions, corner lists, regions | the constructor's steps | `lulesh-init.cc` |
| LULESH communication | message slots, request arrays, buffers | `CommRecv`, `CommSend`, `CommSBN`, `CommSyncPosVel`, `CommMonoQ` | `lulesh-comm.cc` |
| LULESH main loop | time, step, cycle of each rank | `TimeIncrement`, time constraints, collectives | `lulesh.cc` |
| tag lists, admin, dummy backend | small allocations | create and free | `src/client.c`, `src/admin.c`, `src/dummy/` |

How they interact: updates and fetches share a metric's buffer, the updates
under its mutex and the fetches without it. Registry operations add and free the
metrics the others hold pointers to. A fetch finds its metric in the registry by
identifier. Reductions walk the registry, read the buffers without the mutex and
make remote calls in the middle of the walk. The registry is a uthash table.
The provider's RPC handlers reach it through the data margo keeps for an RPC and
a provider id. LULESH shares no state with SYMBIOMON: its ranks are processes
that talk by MPI messages and collective calls only.

What is hard, and what makes each part correct:

* **Buffer.** The check of an argument is made before the mutex is taken; four
  stores make one sample; readers take no lock. Correct means: an accepted call
  appends exactly one sample, published samples never change, no adjustment of
  a gauge is lost, every call returns.
* **Fetch.** `buffer_index` is read without a lock, up to three times; the copy
  races with updates; the caller may give up while the handler goes on; every
  error path must answer. Correct means: a successful fetch is an atomic read
  of the latest samples, pushes reach only registered memory, each fetch ends.
* **Registry.** Destroy frees what others use, the count is kept by hand beside
  the table, freed memory is used again, identifiers can collide. Correct means:
  table and count agree, a listing names metrics, a metric found is the one
  meant.
* **Reduction.** Erase and put are two remote calls during which other ULTs
  run, and the walk over the table remembers its next element across them.
  Correct means: the stored value is the reduction of some prefix of the
  samples, a reduction does not replace it by an older one than it found, a
  walk reduces every metric that was there all along, and it ends.
* **Handles.** Reference counts and the client's count change without a lock,
  and a client may be freed under its handles. Correct means: a handle lives as
  long as the program has a reference, and finalize's warning tells the truth.
* **Lifecycle.** A provider is destroyed by the program or by margo's finalize
  callback. Correct means: once, its RPCs with it, and never while something
  still leads to it.
* **Identifiers, statistics.** Small computations with collisions, constants
  and divisions at their edges.
* **Hash table.** Two linked structures over the same elements, one rebuilt
  while the other stays. Correct means: an ordered set, with bounded chains.
* **LULESH.** The same geometry is written out by hand in several functions and
  on all ranks; ranks run apart, use one tag for different messages, and decide
  on their own when to stop. Correct means: what is sent is what is awaited and
  lands where it belongs, no exchange keeps a rank for ever, and the ranks go
  from cycle to cycle together. That they also *end* after the same cycle the
  code does not see to: each rank's first step comes from its own rounded
  coordinates (`lulesh-init.cc:192`).

`PROJECT.json` lists every hazard with its line.

## 2. The modules

```
TimeSeries  <--refines--  MetricBuffer  <--EXTENDS--  RemoteFetch  <-- RemoteFetchProofs

OrderedTable <--refines-- HashTable  <-- HashTableProofs
MetricRegistry <--EXTENDS-- Reduction  <-- ReductionProofs

MetricHandle, ProviderLifecycle, MetricId, SampleStatistics  <-- ServiceProofs

LuleshMesh <-- LuleshDomain       LuleshMesh, LuleshMessages <-- LuleshComm
LuleshDomain <-- LuleshMeshProofs <--EXTENDS-- LuleshCommProofs --> LuleshComm
HaloExchange, LuleshTime, LuleshRegions <-- LuleshProofs

instances:  MCMetricBuffer   MCRemoteFetch   MCReduction   MCTables (registry, hash table)
            MCService (handles, lifecycle, identifiers, statistics)
            MCLuleshDomain (domain, regions, communication)   MCLuleshSteps (exchanges, time)
```

`DataLemmas` has what the proof modules need to know of data: induction on
natural numbers, functions defined stage by stage, sequences without repetition,
folds, extremes, sums and products, ranks in a finite set of numbers, division,
numbers of two digits and powers of two.

### TimeSeries
What a metric promises to the ULTs that update it, with no buffer, index or
mutex: a sequence that only grows at its end. A call is judged against the
newest value when it is made (`Call`, `Reject`), appends one value at one later
instant (`Record`), then returns (`Return`).

### MetricBuffer
One metric and the ULTs in `Ults` that update it. `buf` and `index` are the
buffer and `buffer_index`, `mutex` its holder, `pc`, `arg` and `ret` each ULT's
place in an update function, its argument and last return code. `base`
remembers the index at the argument check; it is read by properties only.

| action | code |
|---|---|
| `Update`, `UpdateInvalid` | call and unlocked argument check, `client.c:126-139` |
| `UpdateGauge`, `UpdateGaugeInvalid` | `client.c:156-162` |
| `Lock` | `ABT_mutex_lock`, `client.c:143` and `166` |
| `StoreVal` | the store of the value, `client.c:146` and `169-173` |
| `StoreStamp` | the stores of time and sample_id, `client.c:147-148` and `175-176` |
| `Publish` | `buffer_index++`, `client.c:149` and `177` |
| `Unlock` | `ABT_mutex_unlock` and return, `client.c:151-153` and `180-182` |

The value is stored before the call of `ABT_get_wtime`, which the compiler
cannot move it across. The stores after that call are not ordered for a reader
without the mutex, so `StoreStamp` and `Publish` come in either order. Time and
sample_id are abstracted to one stamp, the ULT that wrote them. Values are
integers: the code only compares and adds them. NaN is not modelled.

`HasRoom` is the one bound built into the model: the code never compares
`buffer_index` with `METRIC_BUFFER_SIZE`, and what happens beyond is undefined,
so a call that would find no slot is not made.

### RemoteFetch
Adds to the buffer the executions `Calls` of the fetch. `caller`, `req`,
`bulk`, `mem` and `got` are the caller's side, `srv`, `from`, `out` and `copy`
the handler's; `since` is history. A call is one execution, so a caller that
gives up and tries again is two calls, and the first one's handler may run on.

| action | code |
|---|---|
| `Fetch` | cap, allocate, register, forward, `client.c:244-276` |
| `FetchUnregistered`, `FetchAbort` | `margo_bulk_create` fails, `client.c:263-268`: a null handle is sent, or the assertion ends the caller |
| `Receive` | the answer, `client.c:289-296` |
| `FetchFail` | error returns, `client.c:270-287`; they free neither memory nor bulk handle |
| `Setup`, `SetupFail` | input, `b`, `local_bulk`, `provider.c:268-285` |
| `Find` | `find_metric`, known or not, `provider.c:287-292` |
| `Compare`, `Reload` | the loads of `buffer_index`, `provider.c:295-300` |
| `Copy`, `Push`, `Respond` | memcpy, bulk push, answer, `provider.c:297-320` |

`Fused` is a property of the build. The source names `buffer_index` for the
comparison and again for the size or position of the copy. An optimising
compiler loads it once, since nothing in between can change it in a program
without data races (`Fused = TRUE`); a Debug build loads it twice (`FALSE`).
`Faults` names the Mercury operations that may fail. `Junk` is what an
uninitialised `actual_count` may hold. After a failed set-up two uninitialised
locals are freed: `up'` \in BOOLEAN lets the process survive that or end.
Assertions are compiled out in the default (Release) build. The model has the
one on `margo_bulk_create`, in both builds; where `margo_create` fails, it has the
error return that follows the assertion. `bulk` says what became of the
handle of the caller's memory: registered, null after a failed registration, or
freed. Nothing can be pushed through a null handle.

### MetricRegistry
The provider's table of metrics. `table` is the hash table in the order of its
`hh.next` links, `num_metrics` the counter beside it, `metric` and `left` what
each heap block holds: the structure, also after `free`, and the link it had
when it was removed. `created` numbers the metrics, `listing` is what the last
list RPC gave its caller, `up` whether the process runs.

| action | code |
|---|---|
| `Create`, `CreateExisting` | find, calloc, add, then the reduction operation, `provider.c:197-250`, `721-734`; METRIC_EXISTS changes nothing |
| `Update` | one sample more, `client.c:143-153`; its steps are in `MetricBuffer` |
| `Destroy`, `DestroyUnknown` | `provider.c:343-359`, `736-749`; the process may end on the freed block; INVALID_METRIC changes nothing |
| `DestroyAll` | `remove_all_metrics`, `provider.c:361-367`, `751-760` |
| `List`, `ListFail` | handler and caller, `provider.c:662-707`, `client.c:353-388` |

Each call is one step. That is the code on **one execution stream**, as
`margo_init` sets it up in `examples/server.c:31`: none of these functions takes
a lock or yields, so no ULT runs in the middle of one. On several streams
nothing protects the table; that is listed as a hazard and not modelled. A name
stands for namespace, name and tags and for the identifier made of them, that
is, identifiers do not collide here. A freed block keeps what it held until
`calloc` hands it out again; an allocator that overwrites it is represented only
by the process ending (`up'` \in BOOLEAN).

### Reduction
The ULTs in `Ults` that call reduce or reduce_all, and the key-value store of
the aggregator. A ULT gives up the stream only inside `sdskv_erase` and
`sdskv_put`; `running` is the one that has it inside a reduction. `el` and `tmp`
are the two pointers of `HASH_ITER`, `job` the key and value being written. The
aggregator is not under `src/`; `store` is what the two calls do to it.

| action | code |
|---|---|
| `Reduce`, `ReduceAll` | the call, `provider.c:369-377`, `534-542` |
| `VisitUnknown`, `VisitIdle`, `VisitLoad` | from `find_metric` to the first remote call, `provider.c:373-482` |
| `Erase`, `EraseLost`, `Put`, `PutLost` | the remote effect, or none, `provider.c:398-401` and alike |
| `Advance` | after the put: `HASH_ITER` goes on, or the call returns, `provider.c:542-548`, `uthash.h:1073-1075` |
| `Others` | the application between two remote calls: create, update, destroy, destroy all |

A reduced value is the number of its metric and how many samples it covers:
which function of them it is does not matter to the order of things. STORE
covers one sample at most, because `provider.c:478` sends `sizeof` of a product,
eight bytes. The results of the remote calls are only looked at by assertions,
which the default build leaves out, so a lost call goes unnoticed. A name
stands for `stringify` as well: two metrics have different keys. `seen`, `due`,
`done`, `torn` and `kept` are history: what the store held when the reduction
read the index, what the walk has to reduce and has reduced, whether its next
metric was destroyed under it, which keys were written and not lost.

### MetricHandle
A client and its handles. A step is one load or store of a counter: `CountUp`
and `Close` are the two halves of `num_metric_handles += 1` in create,
`StoreIncr` the store of `refcount += 1`; release loads and stores the count
(`StoreDecr`), reads it *again* (`Test`), and then frees the address (`Drop`),
counts down and frees the handle (`CountDown`, `Close`), `client.c:299-351`.
`owned`, `raced`, `overlapped` and `warned` are history: the references the
program has, the handles on which two calls have overlapped, whether any two
calls have, what finalize warned of. A use of freed memory sets `fault` and ends
the behaviour, for what follows is undefined. Nothing in the code serialises the
calls, so the promises say what holds as long as they have not overlapped: on a
handle, for its references; at all, for the client's count.

### ProviderLifecycle
Providers in heap blocks, margo's registrations `rpc` and its stack of finalize
`callbacks`. `Register` has the two refusals of `provider.c:65-75`; its `push`
is `push_finalize_callback`, its `keep` that the caller asked for the pointer;
`BedrockRegister` passes zeroed arguments. `Finalized` is
`symbiomon_finalize_provider`, used by `Destroy` (after popping the callback)
and by margo's `RunCallback`. After the `free` it reads `provider->mid` to log:
`Logged` lets the process survive that or end. Margo is external; `Pop` takes the
last callback of an owner off its stack.

### MetricId
`Hash` is djb2, `Id` the XOR of namespace, name and tags, `CreateMetric` and `Lookup`
the two ways an identifier is used. Strings are sequences of signed characters
other than the terminator. An identifier is the set of the places of its one
bits (`Bits`), which makes XOR the symmetric difference; `Width` is their
number: 32 in the code, 16 in the runs because TLC's integers have 32 bits
themselves.

### SampleStatistics
What is computed from samples: `DumpHistogram` with extremes, bucket width and
`Bucket`, and `Reduce` with the value of every operation, the places of the
samples that ANOMALY takes for outliers and the maximum of the batched variant.
Values are in units of which
`Scale` make one, so that they may be fractions; rounding is not modelled. An
index that is undefined, or one past the last, may end the process (`up`).
`Update` says which values occur: only timers have their sign checked, and a
counter's is only compared with the newest sample there was before the mutex was
taken, or with none, so counters may be negative and, with several ULTs, may
decrease: no order of their values is assumed.
`Buckets` has 0, which the code does not refuse.

### OrderedTable and HashTable
`OrderedTable` is what a table promises: a sequence of elements with different
keys that grows at its end or where the order wants it, loses and replaces
elements and can be sorted stably. `HashTable` has the two lists uthash lays
over its elements: `hh.prev`/`next` in application order, `hh_prev`/`hh_next`
in the chain of a bucket. Each macro is an operator named for it: `AddToTable`
with `Push` and `Expand`, which moves the chains one after the other (`Transfer`,
`Move`, `Rehash`) and gives up after two useless expansions; `AppendList`,
`InsertBefore`, `Deleted` with `CloseOrder` and `CloseChain`; `Sort`, a merge
sort in `Round`s of runs twice as long. `DeleteAll` is `remove_all_metrics`: it
deletes while it iterates. `Walk` is what a loop along a link meets; the
refinement maps the links to the sequence `HASH_ITER` meets (`AppOrder`).

`ChainsBounded` has a factor 2 that the comments of `uthash.h` do not mention.
A bucket is granted one multiple of `HASH_BKT_CAPACITY_THRESH` when it is made,
and one more of `ideal_chain_maxlen` for each that its chain needs in an
expansion. If many buckets were granted more, the table holds more than
`HASH_BKT_CAPACITY_THRESH` elements a bucket when it expands next, and the ideal
length it computes is itself above the threshold, up to twice (see the proof).

### LuleshMesh and LuleshDomain
`LuleshMesh` has the computations of one rank's index arrays as operators, one
per function of `lulesh-init.cc`; `LuleshDomain` runs them in the constructor's
order, for any rank. Coordinates and other real-valued fields are left out. A
node's place in the cube of all ranks (`GlobalNode`) is what its coordinates
say. `SetupThreadSupportStructures` fills its lists in a build with several
threads only, so `Threads` has both outcomes.

### LuleshMessages and LuleshComm
The 26 messages of an exchange are written out by hand in `CommRecv`,
`CommSend`, `CommSBN`, `CommSyncPosVel` and, for faces, `CommMonoQ`.
`LuleshMessages` has one table per function and section, each translated from
its own lines: whether the message depends on `doSend` or `doRecv`, its
direction, and its nodes in order. `LuleshComm` runs one exchange of all ranks
with these tables: `CommRecv` posts, `CommSend` packs, `UnpackNodes` and
`UnpackGhosts` wait and unpack, each for all its messages in one step. A
field's value is its origin: which copies of a node were summed, or whose value
stands there. The fields packed one behind the other in a message are one field
here; their number sizes the slots. The ranks take turns; how their steps
interleave is the next module's subject.

### HaloExchange
All ranks from the start of `main` to `MPI_Finalize`: a `Script` of exchanges
and collective calls that each goes through at its own pace. An exchange is
`CommRecv` (resets `recvRequest`, posts), `CommSend` (sends), `Waitall` (its
end: the sends are complete), `Unpack` (waits for the receives). `Abort` is the
three places that call `MPI_Abort`. MPI is external: a receive takes the first
message of its sender and tag; a send is complete when its receive is posted,
or at once in the exchanges in `buffered`, which may be any of `Bufferings`.
`PeersAssumption`, that the three functions agree on who talks to whom, is what
`LuleshComm` states as `MessagesMatch` and `UnpacksWhatWasPosted`.

### LuleshTime
`LoopHead` is the condition of `main`'s loop and `TimeIncrement` up to
`MPI_Allreduce`, which the first cycle does without; `Allreduce` is that call,
which all ranks must enter, with what follows it on each rank; `Advance` fits
the step to the stop time and adds it; `LeapFrog` is the physics, of which only
the two constraints are seen, any of the given limits. Times are whole numbers
here and divisions round down. A rank's first step, `firstdt`, is any of
`FirstSteps`: `lulesh-init.cc:192` computes it from the volume of the rank's own
first element, whose coordinates (`lulesh-init.cc:224-241`) are rounded by where
the rank lies, so the ranks' first steps may differ in their last bits.

### LuleshRegions
`CreateRegionIndexSets`: `Pick` draws a region and a run length, `Redraw` draws
the last region again. `CountRegions` allocates an index set for as many elements
as a region has, `FillSets` gives one element after the other to the set of its
region. `rand()` is any draw that has a chance.

Names with an underscore (`Lock_Barging`, `CopyEnd_Oldest`) are mutants: wrong
variants of the definition that follows them, in no specification. Each
property of a passing run is violated when its mutant replaces the definition,
as `PROJECT.json` lists.

## 3. The runs

| run | instance | shows | states |
|---|---|---|---|
| `buffer` | 3 ULTs, 3 slots, values -1, 0, 2, differences -1, 2 | `Inductive` (mutual exclusion, a slot for each accepted call, stored values, stamps, no negative timer sample), `SoloMonotone`, `NoStaleCounter`, `ImplementsTimeSeries`, and `UpdateReturns`: every accepted update returns | 135,048 |
| `counter_race` | 2 ULTs, 2 slots | **violated**: `CounterMonotone`; with two writers a counter may decrease | |
| `fetch_safety` | 2 ULTs (symmetric), 3 slots, 1 call, requests -1, 0, 1, 4, all faults, one load | `FetchInductive`, `FetchLatest`, `FetchStamped`, `PushIntoRegistered` | 2,161,720 |
| `fetch_liveness` | 1 ULT, 3 slots, all faults, two loads | `FetchReturns`: every fetch ends while the process lives | 273,502 |
| `fetch_reload` | as `fetch_safety`, no faults, two loads | **violated**: `FetchWithinRequest`; a fetch returns more than was requested | |
| `tables` | registry: 3 names and blocks (symmetric), 4 creations, 1 sample, listing requests 0, 2 and 5; hash table: 6 elements of 5 keys, three of them with one hash, first table of one bucket | `RegistryInv` (count, links, unique identifiers), `ListingReal`; `Fsck`, `FindsWhatIterates`, `ChainsBounded`, `ImplementsOrderedTable` | 47,213 |
| `reduction_store` | 2 ULTs, 1 name, 2 blocks, STORE and SUM, 2 samples | `ReductionInv`, `NotBehindStart`, `AbsentOnlyBetween`, and `ReductionReturns`: every reduction returns while the process lives, though the other ULT takes the stream before it | 490,989 |
| `reduction_walk` | 1 ULT, 3 names and 3 blocks, three metrics registered and updated at the start, 1 more creation | `WalkSafe`, `WalkComplete`, and `ReductionReturns`: every walk ends, over metrics that come and go and along the links of freed ones | 1,256,861 |
| `service` | handles: 2 streams, 2 handles, 3 references, 6 calls; providers: 2 ids, 2 blocks, 4 registrations; identifiers: 3 strings, 5 tag lists; statistics: up to 3 samples of 6 values, 0 to 3 buckets | `HandleInv`, `WarningTruthful`; `LifeInv`; `IdInv`; `StatInv` | 287,753 |
| `lifecycle_ignore` | as `service` | **violated**: `IgnoredIsDestroyed`; an ignored provider whose arguments clear `push_finalize_callback` outlives margo_finalize | |
| `lulesh_domain` | meshes of edge 1 to 3 on 1, 8 and 27 ranks (7 is refused); 8 elements in 1, 2, 5 regions; exchanges of 8 and 27 ranks, edge 1 and 2 | `MeshInv`, `RegionInv`, `RegionsEnd`, `ExchangeInv`, `FieldsAgree` | 39,822 |
| `lulesh_steps` | 4 ranks, 2 cycles, eager and rendezvous sends; 3 processes, first steps 30 and 31 in any combination, limits that give 22 to 36, stop time 80 | `HaloSafe`, `MessagesEnd`, `TimeInv`, `Lockstep`, `LoopEnds` | 542,277 |

**Several parts in one run.** `tables`, `service`, `lulesh_domain` and
`lulesh_steps` hold parts that share no variable. Their interleaving would add
nothing, so `moving`, chosen at the start, names the part that takes steps, and
the others rest in one initial state. A fairness condition is that of the
part's own specification, restricted to behaviours in which it moves; `MessagesEnd`,
`LoopEnds` and `RegionsEnd` are the parts' liveness properties under that
premise.

**Invariants of several parts.** `HandleInv`, `LifeInv`, `IdInv`, `StatInv`,
`MeshInv`, `RegionInv`, `ExchangeInv`, `FieldsAgree`, `HaloSafe` and `TimeInv`
are conjunctions of named promises, each stated and explained where it is
defined: for example `LifeInv` of `ServesLive`, `CallbackOnce` and
`FinalizeFrees`, `ExchangeInv` of `MessagesMatch`, `UnpacksWhatWasPosted` and
`BuffersFit`.

**Bounds, SYMBIOMON.** Two ULTs are all that the critical section and the
unlocked check need to interfere; a third lets a waiter be overtaken by
different ULTs. Three slots let a window begin after the first slot and end
before the last. Values include a negative one for the timer check, equal and
increasing ones for the counter check. Calls share only the buffer, which they
do not change, so one call meets every interleaving with the updates; the proofs
cover any number. Requests include a negative one, zero, one inside the buffer
and one beyond it. Three blocks and four creations let a block be used again
while two others are registered; a table of three has a first, a middle and a
last metric to be destroyed before, at and after the place of a walk, and a walk
can come from one freed metric to another. `reduction_walk` begins with that
table: which name and block each metric has makes no difference, and liveness
is checked without symmetry. For the store, one name with two blocks gives a metric and the one created in its place;
two samples give a newer and an older value; STORE and SUM are one remote call
and two. The hash table starts with one bucket and expands when a chain holds
more than one element, so that six elements bring it through useful expansions,
two useless ones and the stop of expansion; two elements have one key, and the
ranks repeat, so that sorting must be stable. Two streams and two handles give
calls that overlap on one handle and on the client only; six calls are enough to
create, share, release and finalize in any order, and the proof covers
any number. Two ids and two blocks let an id be registered again after a
destroy, in the other block or the same. The tag lists have one tag, two in both
orders and one twice, and two of the strings differ in one character. Samples
include negative ones and fractions, for counters too. The runs switch deadlock checking off where
the system really stops: slots, samples, metrics, calls or registrations are
used up.

**Bounds, LULESH.** Eight ranks are the smallest cube with neighbours, 27 the
smallest with a rank that has all 26; edges of one, two and three elements have
no inner node, inner nodes of a face, and an inner element. One exchange per
behaviour suffices for what is sent, packed and unpacked, since every exchange
begins with fresh requests; that exchanges of different cycles do not mix is the
question of `lulesh_steps`, where the ranks 0 to 3 of the 8 are each other's
neighbours. Two cycles contain every pair of exchanges that follow each other.
The limits and first steps of the time model force a shorter step, let it stand
and let it grow. Two first steps, 30 and 31, stand for a difference in the last
bits; of three processes two begin alike, or all do. The stop time of 80 takes
three or four steps: it is chosen so that the processes with one first step can
reach it a cycle before those with the other. Eight elements in
runs of two and three have a last run that is cut off; five regions are the
least with an expensive one.

**Fairness.** Weak fairness of a ULT's own steps (`Progress`) and of handler
and answer (`Serve`, `Receive`): Argobots runs every ready ULT and Margo starts
a handler for each request. A waiter needs no strong fairness for the mutex:
each ULT that overtakes it uses up a slot. Nobody must make a new call, and a
fetch needs no fairness of the updating ULTs. The answer is assumed to arrive
or the RPC to fail; a peer that vanishes unnoticed is not modelled, and
`FetchReturns` allows the provider's process to end. In a reduction, a ULT that
has the stream goes on and a remote call ends, with effect or without (weak
fairness). A ULT made ready again gets the stream in its turn although others
take it before: its pool is a queue (strong fairness of `Advance`). Nobody need
call anything, and the application creates `MaxCreates` metrics at most: one that
added and updated a metric during every remote call of a walk would keep the walk
going for ever. An MPI rank is a process that
runs, and MPI completes a call that all have entered (weak fairness per rank and
of `Allreduce`). Weak fairness of `Pick` says that `rand()` does not give the
last region for ever if it can give another.

**What the reduction runs show, and do not.** A walk is safe against everything
the application does during its remote calls except one thing: destroying the
metric `HASH_ITER` goes to next. `WalkSafe` says that this is the only way it
meets a freed metric, `WalkComplete` that otherwise nothing is missed. Two
reductions of one metric that overlap may leave the older of their two values;
`NotBehindStart` says what holds: neither is older than what was stored when it
began. Neither says anything of a call that was lost.

**What the time steps show, and do not.** `Lockstep` and `LoopEnds` are about ranks
whose first steps need not agree. What then remains: no rank is more than one
cycle ahead of another, a reduction takes the least of the limits of one cycle,
and ranks that *began* alike have equal times and steps in every cycle and leave
together. What is lost: a rank can pass `StopTime` in a cycle after which a rank
that began otherwise still has time left, and the latter then waits in
`MPI_Allreduce` for ever. The run reaches this. After first steps of 30 and 31 and a
cycle without limits the steps would be 36 and 37; the rest of 49 is too short for
the second rank's, which is cut to 24 (`lulesh.cc:213`), but the rest of 50 is not for
the first's. With a limit of 24 in the third cycle one rank takes its last 14 and
leaves; the other, with 25 left, takes 16 and goes into the reduction at 71.
`LoopEnds` therefore allows just this one way for a rank not to end. With real
numbers, a difference in the last bits has to fall on one of the comparisons of
`lulesh.cc:195-219` or on that with the stop time.

**What the violations show.**

* `counter_race`: two ULTs pass the check at `client.c:130`, then record in the
  wrong order: the check is not under the mutex that `types.h:90` introduces for
  simultaneous updates. `NoStaleCounter` says what remains true: a value is not
  below the one that was newest *at its check*; and `SoloMonotone` that a
  counter with one writer never decreases.
* `fetch_reload`: `buffer_index` is below the request at the comparison and
  above it at the next load, so `actual_count` exceeds the `in.count` samples
  that `b` and the caller's memory hold. The model goes no further than the
  wrong count: the copy has then overrun `b`.
* `lifecycle_ignore`: `symbiomon-server.h:40` promises that a provider
  registered with `SYMBIOMON_PROVIDER_IGNORE` is destroyed by margo_finalize, and
  makes no other condition. The callback that would do so depends on
  `push_finalize_callback` alone. The default arguments set that field
  (`symbiomon-server.h:32-33`, used for NULL by `provider.c:57-58`); the behaviour
  found is that of a caller whose arguments clear it, as zeroed ones do
  (`bedrock-module.c:20` has such, but keeps the pointer). `LifeInv` says what
  holds: the callbacks are exactly those asked for.

## 4. The proofs

All theorems hold for every value of the constants that the named assumptions
of the modules allow: any finite set of ULTs, streams, calls, handles, ranks,
any buffer size, any bounds.

**RemoteFetchProofs, the buffer.** `Inductive` is the invariant: the types, `LockInv` (the
ULT inside the critical section is the holder), `RoomInv` (each accepted call
has a slot), `StoredInv` (the unpublished value is the one its call wants),
`StampInv` (only the newest sample lacks a stamp, and its writer is inside),
`ArgInv` and `BaseInv` (what the unlocked check still implies later),
`TimerInv`. None of the properties is inductive alone: that published samples
are settled needs that the slot written is not a published one, which needs
mutual exclusion and room. One lemma per action proves it, one step per
conjunct. From it follow `TypeCorrect`, `SamplesStampedHolds`,
`AppendOnlyHolds` and `NoStaleCounterHolds` (by `StepShape`: only `Publish`
moves the index, no step changes a published value). `SoloMonotoneHolds` needs
three facts more, of a counter all of whose samples are one ULT's (`SoloInv`):
the stamps are never behind the samples, the index at that ULT's check is still
the index when it stores, so its value is not below the newest.
`Refinement` maps the buffer to `TimeSeries`: `Publish` is `Record`, `Unlock` is
`Return`, the other steps of the critical section stutter.

**RemoteFetchProofs, the fetch.** `CallInv` says of each call where its handler stands:
what it has loaded lies within the published samples, what it has copied is what
those slots hold. Updates preserve it because published samples are settled and
the index only grows; a step of one call does not disturb another (`CallStep`).
`FetchLatestHolds` and `FetchWithinRequestHolds` assume `Fused`; the rest holds
in either build.

**ReductionProofs, the registry.** `RegistryInv` is inductive as it stands: types, the
count, no block linked twice, unique identifiers, and numbers that tell metrics
apart. The work is in what `HASH_DEL` does to the sequence (`RemoveAtProperties`,
`DestroyTable`). `ListingRealHolds` needs `CountAgrees` for the slots to be filled
and the unique identifiers for the names to differ.

**ReductionProofs, the reductions.** `ReductionInv` adds to it `StreamInv` (who is between
remote calls has the stream), `WalkInv` and `StoreSound`. `WalkInv` is the
argument about `HASH_ITER`: what lies from a metric on is that metric and what
lies from its `hh.next` on (`FromNext`), created metrics are added at the end,
and removing one other than the next leaves the rest ahead (`DestroyFrom`).
`StoreSound` needs that numbers are not used twice and samples only grow.
`AppInv` carries both over what the application does, `WalkerInv` over the steps
of a reduction. The history `seen`, against `StoreSound`, gives
`NotBehindStartHolds`; `AbsentOnlyBetweenHolds` and `WalkCompleteHolds` are
inductive given `ReductionInv`. The metrics, blocks, ULTs and operations are arbitrary, but for ANOMALY.

**ServiceProofs, the handles.** `HandleInv` is inductive. Its core is `HandlesInOrder`:
on a handle no two calls have overlapped on, at most one stream is in the middle
of a call, and its place says how far `refcount` is from the references the
program has. `CountInOrder` says the same of the client's count, by the place of
the one call under way. `HandlesAgree`, `NoHandleFault` and
`ClientFaultAnnounced` are conjuncts, `CountAgreesHolds` and
`WarningTruthfulHolds` follow.

**ServiceProofs, the lifecycle.** `LifeInv` is inductive: a registration finds both
RPCs of its id free although it looks at one (`IdFree`); `Finalized` takes one
provider out of everything (`FinalizedInv`), and its callers have taken its
callback off before, wherever it was on the stack (`RemoveSet`, `FrontSet`).
`GivenLive` is the strengthening: what a program may destroy is there.

**ServiceProofs, the identifiers.** The steps are simple and the operators are
not. `AnyTagOrder` and `NumberedApart` are facts about `Id`; the inductive
invariant adds only that the answer is what a lookup finds. A fold is described
by the sequence of its partial results (`FoldExists`, `FoldValue`). For tags
(`IdBits`): a bit of an identifier is the parity of the number of words that
have it, and a bijection of the tags keeps that number (`SameTagsBits`). For names
(`HashApart`): two names that differ at one place have hashes that differ by the
difference of the two characters times a power of 33; 33 is odd, so it keeps a
difference of less than 2^8 from becoming 0 modulo 2^Width (`ThirtyThree`), and
different words have different bits (`BitsApart`). The strings are any, of any
length and number, `Width` is 13 to 32: 13 bits hold the start value 5381.

**ServiceProofs, the statistics.** `StatIInv` adds to `StatInv` that samples
have their type. Nothing is assumed of the order or the sign of a counter's
samples. `Extremes` says what the two loops over the samples leave,
`BucketRange` that the quotient of a value's and a bucket's width lies in the
histogram or one past it, `SumBounds` and `SumOfBoxes` that sums of squares
bound each of them: `OutlierNear` then says which samples ANOMALY can choose.

**HashTableProofs.** The invariant `HTInv` is that the variables *hold* a list
(`Holds`): its elements are `Strung` along `next` and `prev` from the head to the
tail; there are chains, each strung along `hh_next` and `hh_prev` from the head
of its bucket, that hold the list's elements between them, each in the bucket of
its hash (`Spread`); counts are lengths; keys differ; and the table is `Roomy`.
The checks of `HASH_FSCK`, the agreement of lookup and iteration and the bound
on the chains all follow from it, and none of them is inductive alone.
`WalkStrung` is the bridge to the code: a loop along a link meets exactly the list
strung on it. Each macro has a lemma that says which list its result holds:
appended to (`AddedHolds`), inserted into before the first greater (`InOrderHolds`),
closed over the removed (`DeletedHolds`), which `DeleteAllStep` follows from
element to element. An expansion pushes the elements on empty chains one by one;
in the middle of it old chains are still walked whose fronts have gone, which
works since a push changes no `hh_next` but that of the element it pushes.
`Roomy` is the argument for `ChainsBounded`: a bucket's room is what it held
after the last expansion or the multiple of the threshold it was granted, whichever
is more, and no chain outgrows it before the next; all rooms together are at most
three thresholds a bucket, since multiples are granted for elements beyond the
ideal length only; so the next expansion, into twice the buckets, computes an
ideal length of at most two thresholds. Merge sort needs two inductions:
`MergeStep` (what has been merged rises, and neither run has anything smaller
left) and `RoundRises` (after a round, runs twice as long rise); a rising list
is ordered by rank and, for equal ranks, by place, which is stability.
`StepFollows` takes each action of `HashTable` to the list it leads to and to the
action of `OrderedTable` that leads there, which is `TableImplements`.

**LuleshProofs, the regions.** `RegionInv` needs that the numbers given so far are
those of regions, and, while the sets are filled, that the set of a region holds
just the elements before `filled` that have its number, in their order and once:
so its length is never above the count made before. `StretchesAreRuns` needs
that the list ends in the region drawn last (`EndsInLast`), so that a run of
another region starts a new stretch.

**LuleshMeshProofs.** `MeshInvHolds` holds for every number of ranks that is a
cube, every rank and every edge length. Elements, nodes, ranks and ghosts are numbers
of digits: `Point` makes the number of three coordinates, `Digits` takes it
apart, and each is the other's inverse (`PointDigits`, `DigitsPoint`). What the
constructor reaches by adding one and skipping a node or a row is shown, by
induction over the elements, to be what the digits say (`BuiltMesh`, `GlobalDigits`,
`LinkInside`, `BoundaryIs`, `NodeOnPlane`). Two arrays then agree because their
digits do: a link that the boundary leaves alone leads to the element one step
along that axis, with the nodes of the common face (`NeighboursShareNodes`), and
the nodes of a symmetry plane are those with that coordinate 0
(`SymmetryAgrees`). A ghost is a face's start plus the place of an
element in that face; the start counts the shared faces before it, so the
faces' ranges follow each other without a gap (`GhostsAreDense`). The list of
corners is a counting sort: the slot of a corner is the number of corners
of smaller nodes plus those of its own node before it, and no two share one
(`ListIsSorted`). `DomIInv`, the inductive invariant, says for each step of the
constructor which arrays it leaves in `dom` and which function made each;
the six promises of `MeshInv` follow from that at the end.

**LuleshCommProofs, the messages.** `ExchangeInvHolds` holds for any number of ranks
along an edge from two on, any edge length and each of the four exchanges. The
tables are written out by hand, so the first fact about them is that each lists
26 different directions (or the 6 faces) in one common order, with the lengths
CommRecv expects (`RecvListed`, `NodesListed`). What a rank
exchanges of a table is the subsequence at the places whose section it does not
skip (`ChosenIs`); so the slot of a message is the number of messages before it
that are exchanged (`MsgSlotsAre`), and its data begin after the rooms of those
(`LayoutLaid`). `CommIInv`, the inductive invariant, says how far the turn is and
that every rank that has had its turn holds the layout of its table in `posted`
or `sent`, while until unpacking the fields are its own. The partners then agree
because ranks are numbers of three digits: a neighbour's coordinates are a rank's
plus the direction (`NeighbourIs`), different directions lead to different ranks
(`NeighboursDiffer`), and the opposite of a direction leads back. A rank posts a
receive in a direction just if the rank there sends in the opposite one
(`AwaitedIsGiven`, `GivenIsAwaited`): what one table marks by `doRecv` the other
marks by `doSend` in the opposite entry. `UnpackLaid` compares the
unpacking function with CommRecv entry by entry. The buffers fit because the
rooms of different messages do not meet (`PlacesApart`), each message fits in its
own (`RoomSuffices`) and all rooms together are those `SetupCommBuffers` counts
(`BufferSuffices`).

**LuleshCommProofs, the fields.** `FieldsAgreeHolds` says what the unpacked values
are. A message's node list is all nodes of its side, each at the place its two free
coordinates spell (`SentNodes`, `NodeFound`), and at the same place of the
neighbour's list is the node that is the same in the whole cube (`NodeFacts`):
so what arrives for a node is its `Twin`'s value (`ArrivedIs`, `PutIs`). The copies of
a node are its own and one for every step from its rank to another that has
the node on the facing side (`CopyIs`), all different (`GivenIs`), and every copy has
the same copies (`CopiesShared`). Unpacking is a fold over the slots, which are
those steps, each once (`WaysAre`). The invariant of the fold is `SummedTo` for
CommSBN: after k messages a node has summed its own copy and those of the k with
it, no copy twice, whence `SumDone`. For CommSyncPosVel it is `SyncedTo`, a node's own
copy or one that a message of a rank of larger number brought. Where just two ranks
meet, one of the two steps between them leads to the larger (`OneEarlier`), so the
smaller takes its copy and the larger keeps its own (`TwoSynced`). For CommMonoQ
(`GhostsTo`) the k-th message fills the ghosts of the k-th shared face
(`GhostWays`), from which `GradientIs` reads; `StepLeads` divides the place across
the face by the edge of a rank's cube to see who owns it. `FieldInv`, the
inductive invariant, joins ranks that have unpacked to ranks that still have
their own values; it needs `CommIInv`, that what was sent are the values from before
the first unpacking.

**LuleshProofs, the exchanges and time steps.** `HaloInv` says exactly which messages are under way:
`NetIsOwed`, those of exchanges the sender has been through and the receiver has
not. With `NeverAhead` (no rank is past an exchange its neighbours have not
reached) the first message with the right tag is that of the receiver's own
round; `PhaseFits` and `PendFits` say what is posted. It rests on
`PeersAssumption`, which `ExchangeInvHolds` proves of the code's tables. `TimeInv` is
inductive by the arithmetic of `Offer`, `Adjusted` and `Fitted` on whole
numbers: a step is never 0, and what it leaves of the time is nothing or a third
of it. That is why `TimeAssumption` asks for limits above one, whose half is a
step. `InStep` is
the invariant of the time control. `Abreast` holds for any first steps: one that is
ahead is so by one cycle, and the one behind is on its way from the reduction.
`Alike` is about two processes that began with the same step: in one cycle they
agree, and when one is ahead its step and time are those the other is about to
compute. The reduction keeps it because both compare the same least limit with the
same step, whatever the others bring. `LockstepHolds` follows.

**Only model-checked:** the liveness properties (`UpdateReturns`,
`FetchReturns`, `ReductionReturns`, `MessagesEnd`, `LoopEnds`, `RegionsEnd`), since fairness and ENABLED are outside the prover;
and the three violations. Every safety property of a passing run is a theorem.

The provers cannot instantiate a theorem whose parameter is an operator, which
the library's induction rules are. Where a proof needs induction, as for folds, it
is `NatClosed` of `DataLemmas`: a set that has 0 and the successor of each of
its members is all of Nat. The set takes the place of the predicate.

## 5. Plan

Done: the buffer, the fetch, the registry, the reductions, handles, identifiers,
lifecycle, statistics, the hash table, and LULESH but for its physics. Left, in
this order:

1. The composition of `MetricRegistry` with `RemoteFetch` and `MetricBuffer`, in
   which a destroy frees a metric whose mutex a ULT holds or waits for. What
   follows is undefined, so its question is which orders of calls avoid it.
2. `MetricRegistry` over `HashTable` instead of over a sequence: the refinement
   is checked, the composition is not.
3. The remote calls of the batched reduction, and the global reduction.
4. Requests that margo accepted before a deregistration and runs after it.

## 6. Not modelled

* The registry on several execution streams: its functions would race at every
  access, which is undefined. Likewise a metric destroyed while an update or a
  fetch of it is under way.
* The set-up of aggregators and reducers from address files, and a provider
  without aggregators (`provider.c:382` and `618` divide by their number). The
  global reduction, which calls an external library. The multi-key remote calls
  of the batched reduction, which nothing calls; the value it computes is in
  `SampleStatistics`.
* `HASH_SELECT`, the bloom filter and the hash functions of uthash, which the
  provider does not use or which any assignment of hashes stands for.
* LULESH's physics (kernels over the fields of one element or node), its tuple
  storage, command line, printing and visualisation; NaN and rounding, and with it
  that ranks sum the contributions to a shared node in different orders.
* The overflow of `costDenominator` in `CreateRegionIndexSets` for a large balance
  (`-b`): the sum of the weights is an `Int_t`. `RegionsEnd` is about the draws that
  leave a second region to choose. With a negative balance only one is left, and the
  loop does not end if there are two regions or more.
* Tag list allocation, the admin client and the dummy backend, which keep no
  state that anything reads; the wire encodings Mercury generates; file formats
  of the dumps, log output, the test framework and the example programs.
  `symbiomon_metric_register_retrieval_callback` does nothing but print.
* An identifier may be that of another metric: namespace and name cancel when
  they are equal, and so do two equal tags. `IdInv` says what identifiers do
  tell apart.
