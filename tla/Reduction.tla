----------------------------- MODULE Reduction -----------------------------
(***************************************************************************)
(* symbiomon_provider_metric_reduce and symbiomon_provider_reduce_all_     *)
(* metrics (src/src/provider.c) over the registry, with the key-value      *)
(* store of the aggregator they write to.                                  *)
(*                                                                         *)
(* The ULTs share one execution stream.  A ULT that reduces gives it up    *)
(* only in the calls sdskv_erase and sdskv_put; between two of them it     *)
(* runs alone, which is what running says.  The remote effect of a call    *)
(* comes before its caller runs again, and other ULTs may run in between.  *)
(*   idle --Reduce, ReduceAll--> visit --Visit--> erase --Erase*--> put    *)
(*   visit --Visit--> put (STORE);  put --Put*--> stored --Advance--> visit *)
(*                                                                         *)
(* A reduced value stands for the samples it was computed from: the number *)
(* of the metric and how many of its samples, from the first, it covers.   *)
(***************************************************************************)
EXTENDS MetricRegistry

CONSTANTS
  Ults,    \* the ULTs that reduce
  Nobody,  \* the stream is free
  None     \* the store has nothing under a key

ASSUME ReducersAssumption == Nobody \notin Ults
\* what ANOMALY puts need not come from any sample: it is left out
ASSUME ReducedOpsAssumption == "ANOMALY" \notin Ops
ASSUME NoneAssumption == None \notin [gen : Nat, upto : Nat]

VARIABLES
  store,    \* the aggregator: per key a reduced value or None
  running,  \* the ULT that has the execution stream inside a reduction
  at,       \* per ULT: where it is
  el, tmp,  \* per ULT: the metric being reduced and the one HASH_ITER goes to next
  job,      \* per ULT: the key and the value it is writing
  code,     \* per ULT: what its last call returned
  seen,     \* per ULT: what the store had under its key when it read the index (history)
  due,      \* per ULT: the metrics registered since its walk began (history)
  done,     \* per ULT: the metrics its walk has reduced (history)
  torn,     \* the ULTs whose walk had its next metric destroyed (history)
  kept      \* the keys whose last put was not lost (history)

walkVars == <<running, at, el, tmp, job, code, seen, due, done, torn>>
storeVars == <<store, kept>>
vars == <<registryVars, storeVars, walkVars>>

Keys == Names \X Ops
Value == [gen : Nat, upto : Nat]
NoJob == [key |-> None, val |-> None]
Yielded == {"erase", "put", "stored"}

NoReduction ==
  /\ store = [k \in Keys |-> None]
  /\ kept = {}
  /\ running = Nobody
  /\ at = [u \in Ults |-> "idle"]
  /\ el = [u \in Ults |-> Null]
  /\ tmp = [u \in Ults |-> Null]
  /\ job = [u \in Ults |-> NoJob]
  /\ code = [u \in Ults |-> "none"]
  /\ seen = [u \in Ults |-> None]
  /\ due = [u \in Ults |-> {}]
  /\ done = [u \in Ults |-> {}]
  /\ torn = {}

ReductionInit == RegistryInit /\ NoReduction

Gens(S) == {metric[b].gen : b \in S}

-----------------------------------------------------------------------------
(* The application, when no reduction has the stream.  A listing changes     *)
(* nothing that a reduction reads and is left to MetricRegistry.            *)
Tear(S) ==   \* the walks whose next metric is among the destroyed S
  /\ torn' = torn \cup {u \in Ults : at[u] # "idle" /\ tmp[u] \in S}
  /\ due' = [u \in Ults |-> IF at[u] = "idle" THEN due[u] ELSE due[u] \ Gens(S)]
  /\ UNCHANGED <<running, at, el, tmp, job, code, seen, done>>

Others_AnyStream ==   \* mutant: the application on an execution stream of its own
  /\ UNCHANGED storeVars
  /\ \/ /\ \/ \E n \in Names, op \in Ops : Create(n, op)
           \/ \E b \in Blocks : Update(b)
        /\ UNCHANGED walkVars
     \/ \E b \in Blocks : Destroy(b) /\ Tear({b})
     \/ DestroyAll /\ Tear(InTable)

Others ==
  /\ running = Nobody
  /\ UNCHANGED storeVars
  /\ \/ /\ \/ \E n \in Names, op \in Ops : Create(n, op)
           \/ \E b \in Blocks : Update(b)
        /\ UNCHANGED walkVars
     \/ \E b \in Blocks : Destroy(b) /\ Tear({b})
     \/ DestroyAll /\ Tear(InTable)

-----------------------------------------------------------------------------
(* A call begins: of one registered metric, or of the table from its head. *)
Begin(u, whole, b, next) ==
  /\ up
  /\ at[u] = "idle"
  /\ running = Nobody
  /\ running' = u
  /\ at' = [at EXCEPT ![u] = "visit"]
  /\ el' = [el EXCEPT ![u] = b]
  /\ tmp' = [tmp EXCEPT ![u] = next]
  /\ code' = [code EXCEPT ![u] = "none"]
  /\ due' = [due EXCEPT ![u] = IF whole THEN Gens(InTable) ELSE {metric[b].gen}]
  /\ done' = [done EXCEPT ![u] = {}]
  /\ torn' = torn \ {u}
  /\ UNCHANGED <<registryVars, storeVars, job, seen>>

Reduce(u, b) == b \in InTable /\ Begin(u, FALSE, b, Null)

ReduceAll(u) == table # << >> /\ Begin(u, TRUE, table[1], Next_hh(table[1]))

(* The end of a call: the locals are gone. *)
Return(u, ret) ==
  /\ at' = [at EXCEPT ![u] = "idle"]
  /\ code' = [code EXCEPT ![u] = ret]
  /\ el' = [el EXCEPT ![u] = Null]
  /\ tmp' = [tmp EXCEPT ![u] = Null]
  /\ running' = Nobody

Continue_Unsafe(u) ==   \* mutant: hh.next of the current metric loaded after its calls
  /\ at' = [at EXCEPT ![u] = IF Next_hh(el[u]) = Null THEN "idle" ELSE "visit"]
  /\ el' = [el EXCEPT ![u] = Next_hh(el[u])]
  /\ tmp' = [tmp EXCEPT ![u] = IF Next_hh(el[u]) = Null THEN Null ELSE Next_hh(Next_hh(el[u]))]
  /\ running' = IF Next_hh(el[u]) = Null THEN Nobody ELSE u
  /\ code' = [code EXCEPT ![u] = IF Next_hh(el[u]) = Null THEN "SUCCESS" ELSE @]

(* HASH_ITER goes on: to tmp, whose hh.next it loads. *)
Continue(u) ==
  /\ at' = [at EXCEPT ![u] = "visit"]
  /\ el' = [el EXCEPT ![u] = tmp[u]]
  /\ tmp' = [tmp EXCEPT ![u] = Next_hh(tmp[u])]
  /\ running' = u
  /\ code' = code

(* A metric is done with; reading a freed block may end the process. *)
Proceed(u, gen) ==
  /\ done' = [done EXCEPT ![u] = @ \cup {gen}]
  /\ IF tmp[u] = Null THEN Return(u, "SUCCESS") /\ UNCHANGED up
     ELSE Continue(u) /\ IF tmp[u] \in InTable THEN UNCHANGED up ELSE up' \in BOOLEAN

Covered_OneMore(op, index) == index + 1   \* mutant: i <= current_index

(* STORE puts sizeof a size_t: of the copied samples, part of the first.    *)
Covered(op, index) == IF op = "STORE" THEN 1 ELSE index

(* A metric is visited: find_metric does not know its identifier ...        *)
VisitUnknown(u) ==
  /\ up
  /\ at[u] = "visit"
  /\ Found(metric[el[u]].name) = {}
  /\ Return(u, "INVALID_METRIC")
  /\ UNCHANGED <<registryVars, storeVars, job, seen, due, done, torn>>

(* ... or it has no samples or no reduction operation ...                   *)
VisitIdle(u) ==
  /\ up
  /\ at[u] = "visit"
  /\ \E b \in Found(metric[el[u]].name) :
       metric[el[u]].buffer_index = 0 \/ metric[b].op = "NULL"
  /\ Proceed(u, metric[el[u]].gen)
  /\ UNCHANGED <<table, num_metrics, metric, left, created, listing>>
  /\ UNCHANGED <<storeVars, job, seen, due, torn>>

(* ... or buffer_index is loaded, the samples are read and a call is made.  *)
VisitLoad(u) ==
  /\ up
  /\ at[u] = "visit"
  /\ metric[el[u]].buffer_index > 0
  /\ \E b \in Found(metric[el[u]].name) :
       LET op == metric[b].op
           key == <<metric[el[u]].name, op>>
       IN  /\ op # "NULL"
           /\ job' = [job EXCEPT ![u] =
                [key |-> key,
                 val |-> [gen |-> metric[el[u]].gen,
                          upto |-> Covered(op, metric[el[u]].buffer_index)]]]
           /\ seen' = [seen EXCEPT ![u] = store[key]]
           /\ at' = [at EXCEPT ![u] = IF op = "STORE" THEN "put" ELSE "erase"]
  /\ running' = Nobody
  /\ UNCHANGED <<registryVars, storeVars, el, tmp, code, due, done, torn>>

Visit(u) == VisitUnknown(u) \/ VisitIdle(u) \/ VisitLoad(u)

(* The remote calls.  A build without assertions ignores their results. *)
Erase_Last(u) ==   \* mutant: the call ends after the erase
  /\ up
  /\ at[u] = "erase"
  /\ store' = [store EXCEPT ![job[u].key] = None]
  /\ at' = [at EXCEPT ![u] = "stored"]
  /\ UNCHANGED <<registryVars, kept, running, el, tmp, job, code, seen, due, done, torn>>

Erase(u) ==
  /\ up
  /\ at[u] = "erase"
  /\ store' = [store EXCEPT ![job[u].key] = None]
  /\ at' = [at EXCEPT ![u] = "put"]
  /\ UNCHANGED <<registryVars, kept, running, el, tmp, job, code, seen, due, done, torn>>

EraseLost(u) ==
  /\ up
  /\ at[u] = "erase"
  /\ at' = [at EXCEPT ![u] = "put"]
  /\ UNCHANGED <<registryVars, storeVars, running, el, tmp, job, code, seen, due, done, torn>>

Put(u) ==
  /\ up
  /\ at[u] = "put"
  /\ store' = [store EXCEPT ![job[u].key] = job[u].val]
  /\ kept' = kept \cup {job[u].key}
  /\ at' = [at EXCEPT ![u] = "stored"]
  /\ UNCHANGED <<registryVars, running, el, tmp, job, code, seen, due, done, torn>>

PutLost(u) ==
  /\ up
  /\ at[u] = "put"
  /\ kept' = kept \ {job[u].key}
  /\ at' = [at EXCEPT ![u] = "stored"]
  /\ UNCHANGED <<registryVars, store, running, el, tmp, job, code, seen, due, done, torn>>

(* The ULT has the stream again and goes on to the next metric. *)
Advance(u) ==
  /\ at[u] = "stored"
  /\ up
  /\ running = Nobody
  /\ Proceed(u, job[u].val.gen)
  /\ job' = [job EXCEPT ![u] = NoJob]
  /\ seen' = [seen EXCEPT ![u] = None]
  /\ UNCHANGED <<table, num_metrics, metric, left, created, listing>>
  /\ UNCHANGED <<storeVars, due, torn>>

-----------------------------------------------------------------------------
Remote(u) == Erase(u) \/ EraseLost(u) \/ Put(u) \/ PutLost(u)

ReductionNext ==
  \/ Others
  \/ \E u \in Ults :
       \/ ReduceAll(u)
       \/ \E b \in Blocks : Reduce(u, b)
       \/ Visit(u)
       \/ Remote(u)
       \/ Advance(u)

ReductionSpec == ReductionInit /\ [][ReductionNext]_vars

-----------------------------------------------------------------------------
(***************************************************************************)
(* A ULT that has the stream keeps it; the remote calls end, with or       *)
(* without effect; a ULT made ready again gets the stream in its turn, for *)
(* the pool is a queue, though others take it before it.                   *)
(***************************************************************************)
ReductionFairness ==
  \A u \in Ults : WF_vars(Visit(u)) /\ WF_vars(Remote(u)) /\ SF_vars(Advance(u))

-----------------------------------------------------------------------------
(* Every variable has its type. *)
ReductionTypeOK ==
  /\ RegistryTypeOK
  /\ store \in [Keys -> Value \cup {None}]
  /\ kept \subseteq Keys
  /\ running \in Ults \cup {Nobody}
  /\ at \in [Ults -> {"idle", "visit"} \cup Yielded]
  /\ el \in [Ults -> Blocks \cup {Null}]
  /\ tmp \in [Ults -> Blocks \cup {Null}]
  /\ job \in [Ults -> [key : Keys, val : Value] \cup {NoJob}]
  /\ code \in [Ults -> {"none", "SUCCESS", "INVALID_METRIC"}]
  /\ seen \in [Ults -> Value \cup {None}]
  /\ due \in [Ults -> SUBSET Nat]
  /\ done \in [Ults -> SUBSET Nat]
  /\ torn \subseteq Ults

(* A reduction has the stream exactly while it is between two remote calls,
   and has a value to write exactly while one of them is under way. *)
StreamOf(u) ==
  /\ running = u <=> at[u] = "visit"
  /\ job[u] # NoJob <=> at[u] \in Yielded
  /\ el[u] # Null <=> at[u] # "idle"
  /\ at[u] # "idle" => code[u] = "none"

StreamInv == \A u \in Ults : StreamOf(u)

(* The blocks from b to the end of the table. *)
From(b) ==
  {c \in InTable : \E i, j \in DOMAIN table : table[i] = b /\ table[j] = c /\ i <= j}

(* The number of the metric that a ULT is reducing. *)
Now(u) == IF at[u] = "visit" THEN metric[el[u]].gen ELSE job[u].val.gen

(* A walk whose next metric has not been destroyed is at a registered one;
   what is still due is the metric being reduced or lies ahead of it, and
   what lies ahead has not been reduced. *)
WalkOf(u) ==
  /\ done[u] \subseteq 0 .. created
  /\ at[u] # "idle" /\ u \notin torn =>
       /\ tmp[u] \in InTable \cup {Null}
       /\ at[u] = "visit" => el[u] \in InTable
       /\ due[u] \subseteq done[u] \cup {Now(u)} \cup Gens(From(tmp[u]))
       /\ (done[u] \cup {Now(u)}) \cap Gens(From(tmp[u])) = {}
       /\ Now(u) \notin done[u]

WalkInv == \A u \in Ults : WalkOf(u)

(* A reduction reaches a freed metric only if the one metric that HASH_ITER
   goes to next was destroyed during a remote call: destroying or creating any
   other, the one being reduced included, is safe. *)
WalkSafe == \A u \in Ults : at[u] = "visit" /\ el[u] \notin InTable => u \in torn

(* A reduce_all that returns SUCCESS has reduced every metric that was
   registered from its beginning to its end, unless its next metric was
   destroyed under it. *)
WalkComplete ==
  \A u \in Ults : code[u] = "SUCCESS" /\ u \notin torn => due[u] \subseteq done[u]

(* What the store holds, or is about to, was computed from samples that the
   metric it is about has had. *)
Covers(key, val) ==
  /\ val.gen <= created
  /\ key[2] = "STORE" => val.upto <= 1
  /\ \A b \in Blocks : metric[b].gen = val.gen =>
       metric[b].name = key[1] /\ val.upto <= metric[b].buffer_index

StoreSound ==
  /\ \A k \in Keys : store[k] # None => Covers(k, store[k])
  /\ \A u \in Ults : at[u] \in Yielded => Covers(job[u].key, job[u].val)
  /\ \A u \in Ults : seen[u] # None => Covers(job[u].key, seen[u])

(* The inductive invariant the proofs use. *)
ReductionInv ==
  RegistryInv /\ ReductionTypeOK /\ StreamInv /\ WalkInv /\ StoreSound

(* A reduction never writes a value older than the one it could have found
   when it began: samples and stored values of one metric only grow.  (Two that
   overlap may still leave the older of their own two values.) *)
NotBehindStart ==
  \A u \in Ults :
    at[u] \in Yielded /\ seen[u] # None /\ seen[u].gen = job[u].val.gen =>
      seen[u].upto <= job[u].val.upto

(* A reader of the aggregator misses a value once written, and not lost, only
   between the erase and the put of a reduction of the same metric. *)
AbsentOnlyBetween ==
  \A k \in kept : store[k] = None =>
    \E u \in Ults : at[u] = "put" /\ job[u].key = k

(* Every reduction returns, or the process ends: over metrics that come and go
   under it, and along the links of freed ones, a walk reaches an end.  This is
   for an application that creates a bounded number of metrics (MaxCreates): one
   that adds and updates a metric in every remote call of a walk keeps it going. *)
ReductionReturns == \A u \in Ults : at[u] # "idle" ~> (at[u] = "idle" \/ ~up)
=============================================================================
