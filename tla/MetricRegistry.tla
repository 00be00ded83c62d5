--------------------------- MODULE MetricRegistry ---------------------------
(***************************************************************************)
(* The metrics a provider keeps (src/src/provider.c): the hash table       *)
(* provider->metrics, the counter num_metrics beside it, the heap blocks   *)
(* the metrics live in, and the RPC that lists them.                       *)
(*                                                                         *)
(* None of these functions takes a lock or yields.  The model is that of a *)
(* provider whose ULTs share one execution stream, as margo_init sets it   *)
(* up in src/examples/server.c: each call is one step.                     *)
(*                                                                         *)
(* A metric's name stands for its namespace, name and tags, and for the    *)
(* identifier made of them.  uthash keeps its elements in insertion order, *)
(* linked by hh.next: the table is that sequence.  What a freed block      *)
(* holds stays there until the block is used again.                        *)
(***************************************************************************)
EXTENDS Integers, SequencesExt

CONSTANTS
  Names,       \* what metrics may be called
  Ops,         \* reduction operations they may be created with
  Blocks,      \* heap blocks for symbiomon_metric structures
  Null,        \* the null pointer, and an identifier slot never written
  Sizes,       \* values of max_ids in a listing request
  MaxCreates,  \* bound: metrics created in one behaviour
  MaxSamples   \* bound: samples in one metric

ASSUME BlocksAssumption == IsFiniteSet(Blocks) /\ Null \notin Blocks
ASSUME NamesAssumption == Null \notin Names
ASSUME OpsAssumption == Ops \subseteq {"NULL", "STORE", "SUM", "AVG", "MIN", "MAX", "ANOMALY"}
ASSUME SizesAssumption == Sizes \subseteq Nat
ASSUME BoundsAssumption == MaxCreates \in Nat /\ MaxSamples \in Nat

VARIABLES
  table,        \* provider->metrics in the order of its hh.next links
  num_metrics,  \* provider->num_metrics
  metric,       \* per block: the symbiomon_metric in it, also after free
  left,         \* per block: the hh.next that HASH_DEL left in it
  created,      \* metrics created so far; numbers them (history)
  listing,      \* what the last symbiomon_remote_list_metrics gave its caller
  up            \* the provider's process runs

registryVars == <<table, num_metrics, metric, left, created, listing, up>>

Metric == [name : Names \cup {Null}, op : Ops \cup {"NULL"}, gen : Nat, buffer_index : Nat]
Calloced == [name |-> Null, op |-> "NULL", gen |-> 0, buffer_index |-> 0]

InTable == {table[i] : i \in DOMAIN table}

(* find_metric: the registered metrics with this identifier, at most one. *)
Found(n) == {b \in InTable : metric[b].name = n}

(* Where a registered metric is in the order of insertion. *)
Position(b) == CHOOSE i \in DOMAIN table : table[i] = b

Next_hh_Circular(b) ==   \* mutant: the last element linked to the first
  IF b \notin InTable THEN left[b]
  ELSE IF Position(b) = Len(table) THEN table[1] ELSE table[Position(b) + 1]

(* hh.next of a block; a freed one shows what it held when it was removed. *)
Next_hh(b) ==
  IF b \notin InTable THEN left[b]
  ELSE IF Position(b) = Len(table) THEN Null ELSE table[Position(b) + 1]

RegistryInit ==
  /\ table = << >>
  /\ num_metrics = 0
  /\ metric = [b \in Blocks |-> Calloced]
  /\ left = [b \in Blocks |-> Null]
  /\ created = 0
  /\ listing = [ret |-> "none", ids |-> << >>]
  /\ up = TRUE

-----------------------------------------------------------------------------
(* calloc returns a block that is not in use. *)
Free == Blocks \ InTable

(***************************************************************************)
(* symbiomon_provider_metric_create, with or without reduction.  The       *)
(* reduction operation is set after the metric is in the table; nobody     *)
(* else runs in between.                                                   *)
(***************************************************************************)
Create_Unchecked(n, op) ==   \* mutant: the search for an existing metric dropped
  /\ up
  /\ created < MaxCreates
  /\ \E b \in Free :
       /\ metric' = [metric EXCEPT ![b] =
                       [name |-> n, op |-> op, gen |-> created + 1, buffer_index |-> 0]]
       /\ table' = Append(table, b)
  /\ num_metrics' = num_metrics + 1
  /\ created' = created + 1
  /\ UNCHANGED <<left, listing, up>>

Create(n, op) ==
  /\ up
  /\ created < MaxCreates
  /\ Found(n) = {}
  /\ \E b \in Free :
       /\ metric' = [metric EXCEPT ![b] =
                       [name |-> n, op |-> op, gen |-> created + 1, buffer_index |-> 0]]
       /\ table' = Append(table, b)
  /\ num_metrics' = num_metrics + 1
  /\ created' = created + 1
  /\ UNCHANGED <<left, listing, up>>

(* METRIC_EXISTS: the caller gets the existing metric, and nothing changes. *)
CreateExisting(n) == up /\ Found(n) # {} /\ UNCHANGED registryVars

Update_Wrapping(b) ==   \* mutant: the buffer treated as a ring
  /\ up
  /\ b \in InTable
  /\ metric' = [metric EXCEPT ![b].buffer_index = (@ + 1) % (MaxSamples + 1)]
  /\ UNCHANGED <<table, num_metrics, left, created, listing, up>>

(* An update of a registered metric; MetricBuffer has its steps. *)
Update(b) ==
  /\ up
  /\ b \in InTable
  /\ metric[b].buffer_index < MaxSamples
  /\ metric' = [metric EXCEPT ![b].buffer_index = @ + 1]
  /\ UNCHANGED <<table, num_metrics, left, created, listing, up>>

(***************************************************************************)
(* symbiomon_provider_metric_destroy.  remove_metric frees the metric, and *)
(* its mutex and buffer pointer are read from the freed block afterwards:  *)
(* the allocator may have overwritten them, and the process may end there. *)
(***************************************************************************)
Destroy(b) ==
  /\ up
  /\ \E i \in DOMAIN table : table[i] = b /\ table' = RemoveAt(table, i)
  /\ num_metrics' = num_metrics - 1
  /\ left' = [left EXCEPT ![b] = Next_hh(b)]
  /\ up' \in BOOLEAN
  /\ UNCHANGED <<metric, created, listing>>

(* INVALID_METRIC: the identifier of the caller's metric is not in the table. *)
DestroyUnknown(n) == up /\ Found(n) = {} /\ UNCHANGED registryVars

DestroyAll_Uncounted ==   \* mutant: remove_all_metrics forgets num_metrics
  /\ up
  /\ table' = << >>
  /\ left' = [b \in Blocks |-> Next_hh(b)]
  /\ UNCHANGED <<num_metrics, metric, created, listing, up>>

(* symbiomon_provider_destroy_all_metrics: remove_all_metrics from the head on. *)
DestroyAll ==
  /\ up
  /\ table' = << >>
  /\ num_metrics' = 0
  /\ left' = [b \in Blocks |-> Next_hh(b)]
  /\ UNCHANGED <<metric, created, listing, up>>

(***************************************************************************)
(* symbiomon_remote_list_metrics and its handler.  The array of            *)
(* num_metrics zeroed identifiers is filled from the whole table; the      *)
(* smaller of num_metrics and max_ids of them are sent.                    *)
(***************************************************************************)
Count(max) == IF num_metrics < max THEN num_metrics ELSE max

List(max) ==
  /\ up
  /\ listing' =
       [ret |-> "SUCCESS",
        ids |-> [i \in 1 .. Count(max) |->
                   IF i <= Len(table) THEN metric[table[i]].name ELSE Null]]
  /\ UNCHANGED <<table, num_metrics, metric, left, created, up>>

(* The input cannot be decoded or the RPC fails: no identifiers. *)
ListFail ==
  /\ up
  /\ listing' = [ret |-> "FROM_MERCURY", ids |-> << >>]
  /\ UNCHANGED <<table, num_metrics, metric, left, created, up>>

-----------------------------------------------------------------------------
RegistryNext ==
  \/ \E n \in Names, op \in Ops : Create(n, op)
  \/ \E n \in Names : CreateExisting(n) \/ DestroyUnknown(n)
  \/ \E b \in Blocks : Update(b) \/ Destroy(b)
  \/ DestroyAll
  \/ \E max \in Sizes : List(max)
  \/ ListFail

RegistrySpec == RegistryInit /\ [][RegistryNext]_registryVars

-----------------------------------------------------------------------------
(* Every variable has its type. *)
RegistryTypeOK ==
  /\ table \in Seq(Blocks)
  /\ num_metrics \in Nat
  /\ metric \in [Blocks -> Metric]
  /\ left \in [Blocks -> Blocks \cup {Null}]
  /\ created \in Nat
  /\ listing \in [ret : {"none", "SUCCESS", "FROM_MERCURY"}, ids : Seq(Names \cup {Null})]
  /\ up \in BOOLEAN

(* num_metrics, kept beside the table by hand, is the number of metrics in
   it: the listing handler allocates by the one and fills by the other. *)
CountAgrees == num_metrics = Len(table)

(* No block is linked into the table twice. *)
LinkedOnce == \A i, j \in DOMAIN table : table[i] = table[j] => i = j

(* No two registered metrics share an identifier: find_metric finds the one
   meant, so a destroy or a fetch reaches the metric its caller named. *)
OneMetricPerName ==
  \A b, c \in InTable : metric[b].name = metric[c].name => b = c

(* A registered metric has a name and a number of its own; a block that has
   held a metric keeps both. *)
Numbered ==
  /\ \A b \in InTable : metric[b].name \in Names /\ metric[b].gen > 0
  /\ \A b \in Blocks : metric[b].name \in Names => metric[b].gen > 0
  /\ \A b \in Blocks : metric[b].gen <= created
  /\ \A b, c \in Blocks : metric[b].gen = metric[c].gen /\ metric[b].gen > 0 => b = c

(* The inductive invariant the proofs use. *)
RegistryInv ==
  RegistryTypeOK /\ CountAgrees /\ LinkedOnce /\ OneMetricPerName /\ Numbered

(* A successful listing names metrics, each once: no slot of the array is sent
   unfilled (provider.c symbiomon_list_metrics_ult, client.c
   symbiomon_remote_list_metrics). *)
ListingReal ==
  LET ids == listing.ids IN
  /\ \A i \in DOMAIN ids : ids[i] \in Names
  /\ \A i, j \in DOMAIN ids : ids[i] = ids[j] => i = j
=============================================================================
