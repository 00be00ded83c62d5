-------------------------- MODULE ReductionProofs --------------------------
(***************************************************************************)
(* Proofs about MetricRegistry, for all names, blocks and bounds: the      *)
(* counter and the table agree, identifiers are unique.  And about         *)
(* Reduction, for any number of reducing ULTs and metrics: what the        *)
(* aggregator holds is sound, and a walk over the table misses no metric   *)
(* unless its next one was destroyed.                                      *)
(***************************************************************************)
EXTENDS Reduction, DataLemmas, SequenceTheorems, TLAPS


(* hh.next of a block is a block or null. *)
LEMMA NextType ==
  ASSUME RegistryTypeOK, NEW b \in Blocks
  PROVE  Next_hh(b) \in Blocks \cup {Null}
<1>1. CASE b \notin InTable
  BY <1>1 DEF RegistryTypeOK, Next_hh
<1>2. CASE b \in InTable
  <2>1. Position(b) \in DOMAIN table
    BY <1>2 DEF InTable, Position
  <2>2. Position(b) # Len(table) => table[Position(b) + 1] \in Blocks
    BY <2>1, LenProperties, ElementOfSeq DEF RegistryTypeOK
  <2> QED
    BY <1>2, <2>2 DEF Next_hh
<1> QED
  BY <1>1, <1>2

-----------------------------------------------------------------------------
LEMMA RegistryInitInv == RegistryInit => RegistryInv
<1> SUFFICES ASSUME RegistryInit PROVE RegistryInv
  OBVIOUS
<1> USE DEF RegistryInit
<1>1. RegistryTypeOK
  BY EmptySeq DEF RegistryTypeOK, Metric, Calloced
<1>2. CountAgrees /\ LinkedOnce
  BY DEF CountAgrees, LinkedOnce
<1>3. InTable = {}
  BY DEF InTable
<1>4. OneMetricPerName /\ Numbered
  BY <1>3, NamesAssumption DEF OneMetricPerName, Numbered, Calloced
<1> QED
  BY <1>1, <1>2, <1>4 DEF RegistryInv

(* A created metric goes to a block that was free and to the table's end. *)
LEMMA CreateInv ==
  ASSUME RegistryInv, NEW n \in Names, NEW op \in Ops, Create(n, op)
  PROVE  RegistryInv'
<1> USE DEF RegistryInv
<1>1. PICK b \in Free :
        /\ metric' = [metric EXCEPT ![b] =
                        [name |-> n, op |-> op, gen |-> created + 1, buffer_index |-> 0]]
        /\ table' = Append(table, b)
  BY DEF Create
<1>2. b \in Blocks /\ b \notin InTable
  BY <1>1 DEF Free
<1>3. /\ table' \in Seq(Blocks)
      /\ Len(table') = Len(table) + 1
      /\ \A i \in 1 .. Len(table) : table'[i] = table[i]
      /\ table'[Len(table) + 1] = b
  BY <1>1, <1>2, AppendProperties DEF RegistryTypeOK
<1>4. DOMAIN table = 1 .. Len(table) /\ DOMAIN table' = 1 .. Len(table) + 1 /\ Len(table) \in Nat
  BY <1>3, LenProperties DEF RegistryTypeOK
<1>5. InTable' = InTable \cup {b}
  BY <1>3, <1>4 DEF InTable
<1>6. RegistryTypeOK'
  <2>1. metric' \in [Blocks -> Metric]
    BY <1>1, <1>2 DEF RegistryTypeOK, Metric
  <2> QED
    BY <1>3, <2>1 DEF RegistryTypeOK, Create
<1>7. CountAgrees'
  BY <1>3 DEF Create, CountAgrees
<1>8. LinkedOnce'
  BY <1>2, <1>3, <1>4 DEF LinkedOnce, InTable
<1>9. OneMetricPerName'
  BY <1>1, <1>2, <1>5 DEF Create, Found, OneMetricPerName, RegistryTypeOK
<1>10. Numbered'
  <2>1. \A c \in Blocks : metric'[c].gen = IF c = b THEN created + 1 ELSE metric[c].gen
    BY <1>1, <1>2 DEF RegistryTypeOK
  <2>2. \A c \in Blocks : metric[c].gen \in Nat
    BY DEF RegistryTypeOK, Metric
  <2>3. \A c \in InTable' : metric'[c].name \in Names /\ metric'[c].gen > 0
    BY <1>1, <1>2, <1>5, <2>1 DEF RegistryTypeOK, Numbered, InTable
  <2>4. \A c \in Blocks : metric'[c].name \in Names => metric'[c].gen > 0
    <3>1. \A c \in Blocks \ {b} : metric'[c] = metric[c]
      BY <1>1, <1>2 DEF RegistryTypeOK
    <3> QED
      BY <2>1, <3>1 DEF Numbered, RegistryTypeOK
  <2> QED
    BY <1>2, <2>1, <2>2, <2>3, <2>4 DEF Create, Numbered, RegistryTypeOK
<1> QED
  BY <1>6, <1>7, <1>8, <1>9, <1>10

(* A step that leaves the table alone and gives no block another name or
   number keeps what the invariant says of both. *)
LEMMA TableKept ==
  ASSUME RegistryInv, RegistryTypeOK',
         UNCHANGED <<table, num_metrics, created>>,
         \A b \in Blocks : metric'[b].name = metric[b].name /\ metric'[b].gen = metric[b].gen
  PROVE  RegistryInv'
<1> USE DEF RegistryInv
<1>1. InTable' = InTable /\ InTable \subseteq Blocks
  BY LenProperties, ElementOfSeq DEF InTable, RegistryTypeOK
<1>2. CountAgrees' /\ LinkedOnce'
  BY DEF CountAgrees, LinkedOnce
<1>3. OneMetricPerName' /\ Numbered'
  BY <1>1 DEF OneMetricPerName, Numbered
<1> QED
  BY <1>2, <1>3

LEMMA UpdateInv ==
  ASSUME RegistryInv, NEW b \in Blocks, Update(b)
  PROVE  RegistryInv'
<1>1. metric' \in [Blocks -> Metric]
  <2> DEFINE m == [metric[b] EXCEPT !.buffer_index = metric[b].buffer_index + 1]
  <2>1. metric \in [Blocks -> Metric] /\ metric[b] \in Metric
    BY DEF RegistryInv, RegistryTypeOK
  <2>2. m \in Metric
    BY <2>1 DEF Metric
  <2>3. metric' = [metric EXCEPT ![b] = m]
    BY DEF Update
  <2> HIDE DEF m
  <2> QED
    BY <2>1, <2>2, <2>3
<1>2. \A c \in Blocks : metric'[c].name = metric[c].name /\ metric'[c].gen = metric[c].gen
  BY DEF RegistryInv, RegistryTypeOK, Update, Metric
<1>3. RegistryTypeOK'
  BY <1>1 DEF RegistryInv, RegistryTypeOK, Update
<1> QED
  BY <1>2, <1>3, TableKept DEF Update

(* Where the metrics that stay are after one is removed. *)
LEMMA DestroyTable ==
  ASSUME RegistryInv, NEW b \in Blocks, Destroy(b)
  PROVE  \E i \in 1 .. Len(table) :
           /\ table[i] = b
           /\ table' \in Seq(Blocks)
           /\ Len(table) \in Nat
           /\ DOMAIN table = 1 .. Len(table)
           /\ Len(table') = Len(table) - 1
           /\ DOMAIN table' = 1 .. Len(table) - 1
           /\ \A j \in 1 .. Len(table) - 1 :
                table'[j] = IF j < i THEN table[j] ELSE table[j + 1]
<1>1. table \in Seq(Blocks) /\ Len(table) \in Nat /\ DOMAIN table = 1 .. Len(table)
  BY LenProperties DEF RegistryInv, RegistryTypeOK
<1>2. PICK i \in 1 .. Len(table) : table[i] = b /\ table' = RemoveAt(table, i)
  BY <1>1 DEF Destroy
<1>3. /\ table' \in Seq(Blocks)
      /\ Len(table') = Len(table) - 1
      /\ \A j \in 1 .. Len(table) - 1 :
           table'[j] = IF j < i THEN table[j] ELSE table[j + 1]
  BY <1>1, <1>2, RemoveAtProperties
<1>4. DOMAIN table' = 1 .. Len(table) - 1
  BY <1>3, LenProperties
<1> QED
  BY <1>1, <1>2, <1>3, <1>4

LEMMA DestroyInv ==
  ASSUME RegistryInv, NEW b \in Blocks, Destroy(b)
  PROVE  RegistryInv'
<1> USE DEF RegistryInv
<1>1. PICK i \in 1 .. Len(table) :
        /\ table[i] = b
        /\ table' \in Seq(Blocks)
        /\ Len(table) \in Nat
        /\ DOMAIN table = 1 .. Len(table)
        /\ Len(table') = Len(table) - 1
        /\ DOMAIN table' = 1 .. Len(table) - 1
        /\ \A j \in 1 .. Len(table) - 1 :
             table'[j] = IF j < i THEN table[j] ELSE table[j + 1]
  BY DestroyTable
<1>2. InTable' \subseteq InTable
  BY <1>1 DEF InTable
<1>3. RegistryTypeOK'
  <2>1. left' \in [Blocks -> Blocks \cup {Null}]
    BY NextType DEF Destroy, RegistryTypeOK
  <2>2. num_metrics' \in Nat
    BY <1>1 DEF Destroy, RegistryTypeOK, CountAgrees
  <2>3. table' \in Seq(Blocks) /\ up' \in BOOLEAN /\ UNCHANGED <<metric, created, listing>>
    BY <1>1 DEF Destroy
  <2> QED
    BY <2>1, <2>2, <2>3 DEF RegistryTypeOK
<1>4. CountAgrees'
  <2>1. num_metrics' = num_metrics - 1
    BY DEF Destroy
  <2> QED
    BY <1>1, <2>1 DEF CountAgrees
<1>5. LinkedOnce'
  <2>1. \A j, k \in 1 .. Len(table) : table[j] = table[k] => j = k
    BY <1>1 DEF LinkedOnce
  <2>2. ASSUME NEW j \in 1 .. Len(table) - 1, NEW k \in 1 .. Len(table) - 1,
               table'[j] = table'[k]
        PROVE  j = k
    <3>1. /\ table'[j] = IF j < i THEN table[j] ELSE table[j + 1]
          /\ table'[k] = IF k < i THEN table[k] ELSE table[k + 1]
          /\ Len(table) \in Nat
      BY <1>1
    <3> DEFINE was(m) == IF m < i THEN m ELSE m + 1
    <3>2. /\ was(j) \in 1 .. Len(table) /\ table'[j] = table[was(j)]
          /\ was(k) \in 1 .. Len(table) /\ table'[k] = table[was(k)]
      BY <3>1
    <3>3. was(j) = was(k)
      BY <2>1, <2>2, <3>2
    <3> QED
      BY <3>3
  <2> QED
    BY <1>1, <2>2 DEF LinkedOnce
<1>6. OneMetricPerName' /\ Numbered'
  BY <1>2 DEF Destroy, OneMetricPerName, Numbered
<1> QED
  BY <1>3, <1>4, <1>5, <1>6

LEMMA DestroyAllInv ==
  ASSUME RegistryInv, DestroyAll
  PROVE  RegistryInv'
<1> USE DEF RegistryInv
<1>1. table' = << >> /\ InTable' = {}
  BY DEF DestroyAll, InTable
<1>2. RegistryTypeOK'
  BY <1>1, EmptySeq, NextType DEF DestroyAll, RegistryTypeOK
<1>3. CountAgrees' /\ LinkedOnce'
  BY <1>1, EmptySeq DEF DestroyAll, CountAgrees, LinkedOnce
<1>4. OneMetricPerName' /\ Numbered'
  BY <1>1 DEF DestroyAll, OneMetricPerName, Numbered
<1> QED
  BY <1>2, <1>3, <1>4

(* The identifiers a listing sends form a sequence. *)
LEMMA ListingType ==
  ASSUME RegistryInv, NEW max \in Nat
  PROVE  /\ Count(max) \in Nat
         /\ Count(max) <= Len(table)
         /\ \A i \in 1 .. Count(max) : i \in DOMAIN table /\ metric[table[i]].name \in Names
<1>1. table \in Seq(Blocks) /\ Len(table) \in Nat /\ DOMAIN table = 1 .. Len(table)
  BY LenProperties DEF RegistryInv, RegistryTypeOK
<1>2. Count(max) \in Nat /\ Count(max) <= Len(table)
  BY <1>1 DEF Count, RegistryInv, RegistryTypeOK, CountAgrees
<1> QED
  BY <1>1, <1>2 DEF RegistryInv, Numbered, InTable

LEMMA ListInv ==
  ASSUME RegistryInv, NEW max \in Sizes, List(max)
  PROVE  RegistryInv'
<1> DEFINE ids == [i \in 1 .. Count(max) |->
                     IF i <= Len(table) THEN metric[table[i]].name ELSE Null]
<1>1. max \in Nat
  BY SizesAssumption
<1>2. ids \in [1 .. Count(max) -> Names \cup {Null}] /\ Count(max) \in Nat
  BY <1>1, ListingType
<1>3. ids \in Seq(Names \cup {Null})
  BY <1>2, SeqDef
<1> HIDE DEF ids
<1>4. listing' = [ret |-> "SUCCESS", ids |-> ids]
  BY DEF List, ids
<1>5. listing' \in [ret : {"none", "SUCCESS", "FROM_MERCURY"}, ids : Seq(Names \cup {Null})]
  BY <1>3, <1>4
<1>6. UNCHANGED <<table, num_metrics, metric, left, created, up>>
  BY DEF List
<1>7. RegistryTypeOK'
  BY <1>5, <1>6 DEF RegistryInv, RegistryTypeOK
<1> QED
  BY <1>7, TableKept DEF List

LEMMA ListFailInv == RegistryInv /\ ListFail => RegistryInv'
<1> SUFFICES ASSUME RegistryInv, ListFail PROVE RegistryInv'
  OBVIOUS
<1>1. RegistryTypeOK'
  BY EmptySeq DEF RegistryInv, RegistryTypeOK, ListFail
<1> QED
  BY <1>1, TableKept DEF ListFail

LEMMA RegistryStepInv == RegistryInv /\ [RegistryNext]_registryVars => RegistryInv'
<1> SUFFICES ASSUME RegistryInv, [RegistryNext]_registryVars PROVE RegistryInv'
  OBVIOUS
<1>1. ASSUME NEW n \in Names, NEW op \in Ops, Create(n, op) PROVE RegistryInv'
  BY <1>1, CreateInv
<1>2. ASSUME NEW b \in Blocks, Update(b) PROVE RegistryInv'
  BY <1>2, UpdateInv
<1>3. ASSUME NEW b \in Blocks, Destroy(b) PROVE RegistryInv'
  BY <1>3, DestroyInv
<1>4. CASE DestroyAll
  BY <1>4, DestroyAllInv
<1>5. ASSUME NEW max \in Sizes, List(max) PROVE RegistryInv'
  BY <1>5, ListInv
<1>6. CASE ListFail
  BY <1>6, ListFailInv
<1>7. CASE UNCHANGED registryVars
  <2>1. RegistryTypeOK'
    BY <1>7 DEF registryVars, RegistryInv, RegistryTypeOK
  <2> QED
    BY <1>7, <2>1, TableKept DEF registryVars
<1> QED
  BY <1>1, <1>2, <1>3, <1>4, <1>5, <1>6, <1>7 DEF RegistryNext, CreateExisting, DestroyUnknown

(* The table and num_metrics agree, no metric is linked twice and no two share
   an identifier, in every state between the provider's calls (add_metric,
   remove_metric and remove_all_metrics in provider.c). *)
THEOREM RegistryInvHolds == RegistrySpec => []RegistryInv
<1> QED
  BY RegistryInitInv, RegistryStepInv, PTL DEF RegistrySpec

-----------------------------------------------------------------------------
(* A successful listing sends metrics, each once: symbiomon_list_metrics_ult
   allocates by num_metrics and fills from the table. *)
THEOREM ListingRealHolds == RegistrySpec => []ListingReal
<1>1. RegistryInit => ListingReal
  BY DEF RegistryInit, ListingReal
<1>2. RegistryInv /\ ListingReal /\ [RegistryNext]_registryVars => ListingReal'
  <2> SUFFICES ASSUME RegistryInv, ListingReal, [RegistryNext]_registryVars
               PROVE  ListingReal'
    OBVIOUS
  <2>1. CASE listing' = listing
    BY <2>1 DEF ListingReal
  <2>2. ASSUME NEW max \in Sizes, List(max) PROVE ListingReal'
    <3> DEFINE ids == [i \in 1 .. Count(max) |->
                         IF i <= Len(table) THEN metric[table[i]].name ELSE Null]
    <3>1. /\ Len(table) \in Nat
          /\ Count(max) \in Nat
          /\ Count(max) <= Len(table)
          /\ \A i \in 1 .. Count(max) : i \in DOMAIN table /\ metric[table[i]].name \in Names
      BY SizesAssumption, ListingType, LenProperties DEF RegistryInv, RegistryTypeOK
    <3>2. /\ listing'.ids = ids
          /\ DOMAIN ids = 1 .. Count(max)
          /\ \A i \in 1 .. Count(max) : ids[i] = metric[table[i]].name
      BY <2>2, <3>1 DEF List
    <3>3. \A i, j \in 1 .. Count(max) :
            metric[table[i]].name = metric[table[j]].name => i = j
      BY <3>1 DEF RegistryInv, OneMetricPerName, LinkedOnce, InTable
    <3> HIDE DEF ids
    <3> QED
      BY <3>1, <3>2, <3>3 DEF ListingReal
  <2>3. CASE ListFail
    BY <2>3 DEF ListFail, ListingReal
  <2> QED
    BY <2>1, <2>2, <2>3
    DEF RegistryNext, Create, CreateExisting, Update, Destroy, DestroyUnknown, DestroyAll, registryVars
<1> QED
  BY <1>1, <1>2, RegistryInvHolds, PTL DEF RegistrySpec

-----------------------------------------------------------------------------
(* The table as a sequence of distinct blocks. *)
LEMMA TableFacts ==
  ASSUME RegistryInv
  PROVE  /\ table \in Seq(Blocks)
         /\ Len(table) \in Nat
         /\ DOMAIN table = 1 .. Len(table)
         /\ \A i \in 1 .. Len(table) : table[i] \in Blocks
         /\ \A i, j \in 1 .. Len(table) : table[i] = table[j] => i = j
         /\ InTable = {table[i] : i \in 1 .. Len(table)}
         /\ InTable \subseteq Blocks
<1>1. /\ table \in Seq(Blocks)
      /\ Len(table) \in Nat
      /\ DOMAIN table = 1 .. Len(table)
  BY LenProperties DEF RegistryInv, RegistryTypeOK
<1>2. \A i \in 1 .. Len(table) : table[i] \in Blocks
  BY <1>1, ElementOfSeq
<1>3. \A i, j \in 1 .. Len(table) : table[i] = table[j] => i = j
  BY <1>1 DEF RegistryInv, LinkedOnce
<1>4. InTable = {table[i] : i \in 1 .. Len(table)}
  BY <1>1 DEF InTable
<1>5. InTable \subseteq Blocks
  BY <1>2, <1>4
<1> QED
  BY <1>1, <1>2, <1>3, <1>4, <1>5

LEMMA FromNull == RegistryInv => (From(Null) = {} /\ Null \notin InTable)
  BY TableFacts, BlocksAssumption DEF From

LEMMA NextPosition ==
  ASSUME RegistryInv, NEW i \in 1 .. Len(table)
  PROVE  Next_hh(table[i]) = IF i = Len(table) THEN Null ELSE table[i + 1]
<1>1. table[i] \in InTable
  BY TableFacts
<1>2. Position(table[i]) \in DOMAIN table /\ table[Position(table[i])] = table[i]
  BY TableFacts DEF Position
<1>3. Position(table[i]) = i
  BY <1>2, TableFacts
<1> QED
  BY <1>1, <1>3 DEF Next_hh

LEMMA FromPosition ==
  ASSUME RegistryInv, NEW i \in 1 .. Len(table)
  PROVE  From(table[i]) = {table[j] : j \in i .. Len(table)}
  BY TableFacts DEF From

(* What lies from a metric on is that metric and what lies from the next one
   on: the step HASH_ITER makes. *)
LEMMA FromNext ==
  ASSUME RegistryInv, NEW b \in InTable
  PROVE  /\ From(b) = {b} \cup From(Next_hh(b))
         /\ b \notin From(Next_hh(b))
         /\ Next_hh(b) \in InTable \cup {Null}
<1>1. PICK i \in 1 .. Len(table) : table[i] = b
  BY TableFacts
<1>2. From(b) = {table[j] : j \in i .. Len(table)}
  BY <1>1, FromPosition
<1>3. CASE i = Len(table)
  <2>1. Next_hh(b) = Null /\ From(Null) = {}
    BY <1>1, <1>3, NextPosition, FromNull
  <2>2. i .. Len(table) = {i}
    BY <1>3, TableFacts
  <2> QED
    BY <1>1, <1>2, <2>1, <2>2
<1>4. CASE i # Len(table)
  <2>1. i + 1 \in 1 .. Len(table)
    <3>1. Len(table) \in Nat
      BY TableFacts
    <3> QED
      BY <1>4, <3>1
  <2>2. Next_hh(b) = table[i + 1]
    BY <1>1, <1>4, NextPosition
  <2>3. From(Next_hh(b)) = {table[j] : j \in i + 1 .. Len(table)}
    BY <2>1, <2>2, FromPosition
  <2>4. Next_hh(b) \in InTable
    BY <2>1, <2>2, TableFacts
  <2>5. \A j : j \in i .. Len(table) <=> j = i \/ j \in i + 1 .. Len(table)
    <3>1. Len(table) \in Nat /\ i \in Nat /\ i <= Len(table)
      BY TableFacts
    <3> QED
      BY <3>1
  <2>6. From(b) = {b} \cup From(Next_hh(b))
    BY <1>1, <1>2, <2>3, <2>5
  <2>7. b \notin From(Next_hh(b))
    BY <1>1, <2>3, TableFacts
  <2> QED
    BY <2>4, <2>6, <2>7
<1> QED
  BY <1>3, <1>4

LEMMA FromHead ==
  ASSUME RegistryInv, table # << >>
  PROVE  /\ table[1] \in InTable
         /\ From(table[1]) = InTable
<1>1. 1 \in 1 .. Len(table)
  BY TableFacts, EmptySeq
<1> QED
  BY <1>1, TableFacts, FromPosition

(* What lies from b on is registered. *)
LEMMA FromInTable == \A b : From(b) \subseteq InTable
  BY DEF From

(* Distinct registered metrics have distinct numbers. *)
LEMMA GensDistinct ==
  ASSUME RegistryInv, NEW b \in InTable, NEW c \in InTable, metric[b].gen = metric[c].gen
  PROVE  b = c
  BY TableFacts DEF RegistryInv, Numbered

-----------------------------------------------------------------------------
(* The steps of a ULT that reduces. *)
Walker(u) ==
  \/ ReduceAll(u)
  \/ \E b \in Blocks : Reduce(u, b)
  \/ VisitUnknown(u) \/ VisitIdle(u) \/ VisitLoad(u)
  \/ Erase(u) \/ EraseLost(u) \/ Put(u) \/ PutLost(u)
  \/ Advance(u)

(* A reduction changes nothing of the registry, but may end the process. *)
LEMMA WalkerRegistry ==
  ASSUME RegistryInv, NEW u \in Ults, Walker(u)
  PROVE  /\ UNCHANGED <<table, num_metrics, metric, left, created, listing>>
         /\ up' \in BOOLEAN
         /\ RegistryInv'
<1>0. up \in BOOLEAN
  BY DEF RegistryInv, RegistryTypeOK
<1>1. UNCHANGED <<table, num_metrics, metric, left, created, listing>> /\ up' \in BOOLEAN
  <2>1. CASE ReduceAll(u) \/ \E b \in Blocks : Reduce(u, b)
    BY <1>0, <2>1 DEF ReduceAll, Reduce, Begin, registryVars
  <2>2. CASE VisitUnknown(u) \/ VisitLoad(u) \/ Erase(u) \/ EraseLost(u) \/ Put(u) \/ PutLost(u)
    BY <1>0, <2>2 DEF VisitUnknown, VisitLoad, Erase, EraseLost, Put, PutLost, registryVars
  <2>3. CASE VisitIdle(u) \/ Advance(u)
    BY <1>0, <2>3 DEF VisitIdle, Advance, Proceed
  <2> QED
    BY <2>1, <2>2, <2>3 DEF Walker
<1>2. RegistryTypeOK'
  BY <1>1 DEF RegistryInv, RegistryTypeOK
<1> QED
  BY <1>1, <1>2, TableKept

(* A step of one reduction changes nothing of another. *)
LEMMA WalkerFrame ==
  ASSUME ReductionTypeOK, StreamInv, NEW u \in Ults, NEW v \in Ults, v # u, Walker(u)
  PROVE  /\ at'[v] = at[v] /\ el'[v] = el[v] /\ tmp'[v] = tmp[v]
         /\ job'[v] = job[v] /\ code'[v] = code[v] /\ seen'[v] = seen[v]
         /\ due'[v] = due[v] /\ done'[v] = done[v]
         /\ v \in torn' <=> v \in torn
         /\ running' = v <=> running = v
<1>0. Nobody # v /\ (at[u] = "visit" => running = u)
  BY ReducersAssumption DEF StreamInv, StreamOf
<1> USE DEF ReductionTypeOK
<1>1. CASE ReduceAll(u) \/ \E b \in Blocks : Reduce(u, b)
  BY <1>0, <1>1 DEF ReduceAll, Reduce, Begin, registryVars
<1>2. CASE VisitUnknown(u) \/ VisitLoad(u)
  BY ZenonT(40), <1>0, <1>2 DEF VisitUnknown, VisitLoad, Return
<1>3. CASE Erase(u) \/ EraseLost(u) \/ Put(u) \/ PutLost(u)
  BY <1>3 DEF Erase, EraseLost, Put, PutLost
<1>4. CASE VisitIdle(u)
  BY <1>0, <1>4 DEF VisitIdle, Proceed, Return, Continue
<1>5. CASE Advance(u)
  BY ZenonT(40), <1>0, <1>5 DEF Advance, Proceed, Return, Continue
<1> QED
  BY <1>1, <1>2, <1>3, <1>4, <1>5 DEF Walker

(* What is said of a ULT stays true while it and the registry do not change. *)
LEMMA Frame ==
  ASSUME NEW v \in Ults,
         UNCHANGED <<table, metric, created>>,
         at'[v] = at[v], el'[v] = el[v], tmp'[v] = tmp[v], job'[v] = job[v],
         code'[v] = code[v], due'[v] = due[v], done'[v] = done[v],
         v \in torn' <=> v \in torn, running' = v <=> running = v
  PROVE  /\ WalkOf(v) => WalkOf(v)'
         /\ StreamOf(v) => StreamOf(v)'
<1>1. InTable' = InTable
  BY DEF InTable
<1>2. From(tmp[v])' = From(tmp[v])
  BY <1>1 DEF From
<1>3. Gens(From(tmp[v]))' = Gens(From(tmp[v]))
  BY <1>2 DEF Gens
<1>4. Now(v)' = Now(v)
  BY DEF Now
<1>5. WalkOf(v) => WalkOf(v)'
  BY <1>1, <1>3, <1>4 DEF WalkOf
<1>6. StreamOf(v) => StreamOf(v)'
  BY DEF StreamOf
<1> QED
  BY <1>5, <1>6

LEMMA CoversFrame ==
  ASSUME UNCHANGED <<metric, created>>
  PROVE  \A k, val : Covers(k, val)' <=> Covers(k, val)
  BY DEF Covers

(* The invariant after a step of u, from what the step does to u itself. *)
LEMMA WalkerInv ==
  ASSUME ReductionInv, NEW u \in Ults, Walker(u),
         ReductionTypeOK', StreamOf(u)', WalkOf(u)', StoreSound'
  PROVE  ReductionInv'
<1>1. RegistryInv' /\ UNCHANGED <<table, metric, created>>
  BY WalkerRegistry DEF ReductionInv
<1>2. ASSUME NEW v \in Ults, v # u PROVE StreamOf(v)' /\ WalkOf(v)'
  BY <1>1, <1>2, WalkerFrame, Frame DEF ReductionInv, StreamInv, WalkInv
<1> QED
  BY <1>1, <1>2 DEF ReductionInv, StreamInv, WalkInv

(* Numbers of metrics. *)
LEMMA GensType ==
  ASSUME RegistryInv
  PROVE  /\ \A b \in Blocks : metric[b].gen \in Nat /\ metric[b].gen <= created
         /\ created \in Nat
         /\ \A S \in SUBSET Blocks : Gens(S) \subseteq Nat
  BY DEF RegistryInv, RegistryTypeOK, Metric, Numbered, Gens

(* What is said of a ULT that is not at a remote call, when the store and the
   registry do not change. *)
LEMMA StoreFrame ==
  ASSUME ReductionInv, NEW u \in Ults, Walker(u), store' = store,
         job'[u] = job[u] \/ at'[u] \notin Yielded,
         at'[u] \in Yielded => at[u] \in Yielded,
         seen'[u] = None \/ (seen'[u] = seen[u] /\ job'[u] = job[u])
  PROVE  StoreSound'
<1>1. UNCHANGED <<metric, created>>
  BY WalkerRegistry DEF ReductionInv
<1>2. \A k, val : Covers(k, val)' <=> Covers(k, val)
  BY <1>1, CoversFrame
<1>3. \A v \in Ults : v # u => at'[v] = at[v] /\ job'[v] = job[v] /\ seen'[v] = seen[v]
  BY WalkerFrame DEF ReductionInv
<1>4. ASSUME NEW k \in Keys, store'[k] # None PROVE Covers(k, store[k])'
  BY <1>1, <1>4 DEF ReductionInv, StoreSound, Covers
<1>5. ASSUME NEW v \in Ults, at'[v] \in Yielded PROVE Covers(job[v].key, job[v].val)'
  <2>1. job'[v] = job[v] /\ at[v] \in Yielded
    BY <1>3, <1>5
  <2> QED
    BY <1>1, <2>1 DEF ReductionInv, StoreSound, Covers
<1>6. ASSUME NEW v \in Ults, seen'[v] # None PROVE Covers(job[v].key, seen[v])'
  <2>1. job'[v] = job[v] /\ seen'[v] = seen[v]
    BY <1>3, <1>6
  <2> QED
    BY <1>1, <1>6, <2>1 DEF ReductionInv, StoreSound, Covers
<1> QED
  BY <1>4, <1>5, <1>6 DEF StoreSound

LEMMA ReduceInv ==
  ASSUME ReductionInv, NEW u \in Ults, NEW b \in Blocks, Reduce(u, b)
  PROVE  ReductionInv'
<1>0. Walker(u)
  BY DEF Walker
<1>1. b \in InTable /\ RegistryInv /\ b \in Blocks /\ b # Null
  BY BlocksAssumption DEF Reduce, ReductionInv
<1>2. /\ at[u] = "idle" /\ running' = u
      /\ at' = [at EXCEPT ![u] = "visit"]
      /\ el' = [el EXCEPT ![u] = b]
      /\ tmp' = [tmp EXCEPT ![u] = Null]
      /\ code' = [code EXCEPT ![u] = "none"]
      /\ due' = [due EXCEPT ![u] = {metric[b].gen}]
      /\ done' = [done EXCEPT ![u] = {}]
      /\ torn' = torn \ {u}
      /\ UNCHANGED <<store, kept, job, seen>>
  BY DEF Reduce, Begin, storeVars
<1>3. ReductionTypeOK'
  BY <1>0, <1>1, <1>2, WalkerRegistry, GensType DEF ReductionInv, ReductionTypeOK, RegistryInv
<1>4. /\ at'[u] = "visit" /\ el'[u] = b /\ tmp'[u] = Null /\ code'[u] = "none"
      /\ due'[u] = {metric[b].gen} /\ done'[u] = {} /\ job'[u] = job[u] /\ seen'[u] = seen[u]
  BY <1>2 DEF ReductionInv, ReductionTypeOK
<1>5. StreamOf(u)'
  BY <1>1, <1>2, <1>4 DEF ReductionInv, StreamInv, StreamOf, Yielded
<1>6. WalkOf(u)'
  <2>1. InTable' = InTable /\ table' = table /\ metric' = metric /\ created' = created
    BY <1>0, <1>1, WalkerRegistry DEF InTable
  <2>2. Gens(From(tmp[u]))' = {}
    <3>1. From(Null)' = From(Null)
      BY <2>1 DEF From
    <3>2. From(tmp[u])' = {}
      BY <1>1, <1>4, <3>1, FromNull DEF From
    <3> QED
      BY <3>2 DEF Gens
  <2>3. Now(u)' = metric[b].gen
    BY <1>4, <2>1 DEF Now
  <2> QED
    BY <1>1, <1>4, <2>1, <2>2, <2>3 DEF WalkOf
<1>7. StoreSound'
  BY <1>0, <1>2, <1>4, StoreFrame DEF ReductionInv, StreamInv, StreamOf, Yielded
<1> QED
  BY <1>0, <1>3, <1>5, <1>6, <1>7, WalkerInv

LEMMA ReduceAllInv ==
  ASSUME ReductionInv, NEW u \in Ults, ReduceAll(u)
  PROVE  ReductionInv'
<1>0. Walker(u)
  BY DEF Walker
<1> DEFINE b == table[1]
<1>1. /\ RegistryInv /\ b \in InTable /\ From(b) = InTable /\ InTable \subseteq Blocks
      /\ b \in Blocks /\ b # Null
  BY BlocksAssumption, FromHead, TableFacts DEF ReduceAll, ReductionInv
<1>2. /\ From(b) = {b} \cup From(Next_hh(b))
      /\ b \notin From(Next_hh(b))
      /\ Next_hh(b) \in InTable \cup {Null}
  BY <1>1, FromNext
<1>3. /\ at[u] = "idle" /\ running' = u
      /\ at' = [at EXCEPT ![u] = "visit"]
      /\ el' = [el EXCEPT ![u] = b]
      /\ tmp' = [tmp EXCEPT ![u] = Next_hh(b)]
      /\ code' = [code EXCEPT ![u] = "none"]
      /\ due' = [due EXCEPT ![u] = Gens(InTable)]
      /\ done' = [done EXCEPT ![u] = {}]
      /\ torn' = torn \ {u}
      /\ UNCHANGED <<store, kept, job, seen>>
  BY DEF ReduceAll, Begin, storeVars
<1> HIDE DEF b
<1>4. ReductionTypeOK'
  <2>1. Next_hh(b) \in Blocks \cup {Null} /\ Gens(InTable) \in SUBSET Nat
    BY <1>1, <1>2, GensType
  <2> QED
    BY <1>0, <1>1, <1>3, <2>1, WalkerRegistry DEF ReductionInv, ReductionTypeOK, RegistryInv
<1>5. /\ at'[u] = "visit" /\ el'[u] = b /\ tmp'[u] = Next_hh(b) /\ code'[u] = "none"
      /\ due'[u] = Gens(InTable) /\ done'[u] = {} /\ job'[u] = job[u] /\ seen'[u] = seen[u]
  BY <1>3 DEF ReductionInv, ReductionTypeOK
<1>6. StreamOf(u)'
  BY <1>1, <1>3, <1>5 DEF ReductionInv, StreamInv, StreamOf, Yielded
<1>7. WalkOf(u)'
  <2>1. InTable' = InTable /\ table' = table /\ metric' = metric /\ created' = created
    BY <1>0, <1>1, WalkerRegistry DEF InTable
  <2>2. Gens(From(tmp[u]))' = Gens(From(Next_hh(b)))
    <3>1. From(tmp[u])' = From(Next_hh(b))
      BY <1>5, <2>1 DEF From
    <3> QED
      BY <2>1, <3>1 DEF Gens
  <2>3. Now(u)' = metric[b].gen
    BY <1>5, <2>1 DEF Now
  <2>4. Gens(InTable) = {metric[b].gen} \cup Gens(From(Next_hh(b)))
    BY <1>1, <1>2 DEF Gens
  <2>5. metric[b].gen \notin Gens(From(Next_hh(b)))
    BY <1>1, <1>2, FromInTable, GensDistinct DEF Gens
  <2> QED
    BY ZenonT(40), <1>1, <1>2, <1>5, <2>1, <2>2, <2>3, <2>4, <2>5 DEF WalkOf
<1>8. StoreSound'
  BY <1>0, <1>3, <1>5, StoreFrame DEF ReductionInv, StreamInv, StreamOf, Yielded
<1> QED
  BY <1>0, <1>4, <1>6, <1>7, <1>8, WalkerInv

LEMMA VisitUnknownInv ==
  ASSUME ReductionInv, NEW u \in Ults, VisitUnknown(u)
  PROVE  ReductionInv'
<1>0. Walker(u)
  BY DEF Walker
<1>1. /\ at[u] = "visit" /\ running' = Nobody
      /\ at' = [at EXCEPT ![u] = "idle"]
      /\ code' = [code EXCEPT ![u] = "INVALID_METRIC"]
      /\ el' = [el EXCEPT ![u] = Null]
      /\ tmp' = [tmp EXCEPT ![u] = Null]
      /\ UNCHANGED <<store, kept, job, seen, due, done, torn>>
  BY DEF VisitUnknown, Return, storeVars
<1>2. ReductionTypeOK'
  BY <1>0, <1>1, WalkerRegistry DEF ReductionInv, ReductionTypeOK, RegistryInv
<1>3. /\ at'[u] = "idle" /\ el'[u] = Null /\ tmp'[u] = Null
      /\ done'[u] = done[u] /\ job'[u] = job[u] /\ seen'[u] = seen[u] /\ created' = created
  BY <1>0, <1>1, WalkerRegistry DEF ReductionInv, ReductionTypeOK
<1>4. StreamOf(u)'
  BY <1>1, <1>3, ReducersAssumption DEF ReductionInv, StreamInv, StreamOf, Yielded
<1>5. WalkOf(u)'
  BY <1>3 DEF ReductionInv, WalkInv, WalkOf
<1>6. StoreSound'
  BY <1>0, <1>1, <1>3, StoreFrame DEF Yielded
<1> QED
  BY <1>0, <1>2, <1>4, <1>5, <1>6, WalkerInv

(* The metric a reduction is at has a number. *)
LEMMA NowType ==
  ASSUME ReductionInv, NEW u \in Ults, at[u] # "idle"
  PROVE  Now(u) \in Nat /\ Now(u) <= created
<1>1. CASE at[u] = "visit"
  <2>1. el[u] \in Blocks
    BY <1>1 DEF ReductionInv, ReductionTypeOK, StreamInv, StreamOf
  <2> QED
    BY <1>1, <2>1, GensType DEF ReductionInv, Now
<1>2. CASE at[u] # "visit"
  <2>1. at[u] \in Yielded
    BY <1>2 DEF ReductionInv, ReductionTypeOK
  <2>2. job[u] \in [key : Keys, val : Value]
    BY <2>1 DEF ReductionInv, ReductionTypeOK, StreamInv, StreamOf
  <2>3. job[u].val.gen <= created
    BY <2>1 DEF ReductionInv, StoreSound, Covers
  <2> QED
    BY <1>2, <2>2, <2>3 DEF Now, Value
<1> QED
  BY <1>1, <1>2

(* HASH_ITER goes on to a registered metric if its next one is registered. *)
LEMMA ProceedInv ==
  ASSUME ReductionInv, NEW u \in Ults, Walker(u), at[u] # "idle", Proceed(u, Now(u)),
         UNCHANGED <<store, kept, due, torn>>,
         \/ job' = job /\ seen' = seen /\ job[u] = NoJob
         \/ job' = [job EXCEPT ![u] = NoJob] /\ seen' = [seen EXCEPT ![u] = None]
  PROVE  ReductionInv'
<1>1. /\ RegistryInv' /\ RegistryTypeOK'
      /\ table' = table /\ metric' = metric /\ created' = created /\ InTable' = InTable
  BY WalkerRegistry DEF ReductionInv, RegistryInv, InTable
<1>2. /\ job'[u] = NoJob /\ (seen'[u] = None \/ (seen'[u] = seen[u] /\ job'[u] = job[u]))
      /\ job' \in [Ults -> [key : Keys, val : Value] \cup {NoJob}]
      /\ seen' \in [Ults -> Value \cup {None}]
      /\ code[u] = "none" /\ el[u] # Null
      /\ due'[u] = due[u] /\ (u \in torn' <=> u \in torn)
  <2>1. /\ job \in [Ults -> [key : Keys, val : Value] \cup {NoJob}]
        /\ seen \in [Ults -> Value \cup {None}]
    BY DEF ReductionInv, ReductionTypeOK
  <2>2. /\ job'[u] = NoJob /\ (seen'[u] = None \/ (seen'[u] = seen[u] /\ job'[u] = job[u]))
        /\ job' \in [Ults -> [key : Keys, val : Value] \cup {NoJob}]
        /\ seen' \in [Ults -> Value \cup {None}]
    BY <2>1
  <2>3. code[u] = "none" /\ el[u] # Null
    BY DEF ReductionInv, StreamInv, StreamOf
  <2> QED
    BY <2>2, <2>3
<1>3. Now(u) \in Nat /\ Now(u) <= created
  BY NowType
<1>4. /\ done' = [done EXCEPT ![u] = @ \cup {Now(u)}]
      /\ done'[u] = done[u] \cup {Now(u)}
      /\ done' \in [Ults -> SUBSET Nat]
      /\ done'[u] \subseteq 0 .. created
  BY <1>3 DEF Proceed, ReductionInv, ReductionTypeOK, WalkInv, WalkOf
<1>5. CASE tmp[u] = Null
  <2>1. Return(u, "SUCCESS")
    BY <1>5 DEF Proceed
  <2>2. at'[u] = "idle" /\ el'[u] = Null /\ code'[u] = "SUCCESS" /\ running' = Nobody
    BY <2>1 DEF Return, ReductionInv, ReductionTypeOK
  <2>3. ReductionTypeOK'
    BY <1>1, <1>2, <1>4, <2>1 DEF Return, ReductionInv, ReductionTypeOK
  <2>4. StreamOf(u)'
    BY <1>2, <2>2, ReducersAssumption DEF StreamOf, Yielded
  <2>5. WalkOf(u)'
    BY <1>1, <1>4, <2>2 DEF WalkOf
  <2>6. StoreSound'
    BY <1>2, <2>2, StoreFrame DEF Yielded
  <2> QED
    BY <2>3, <2>4, <2>5, <2>6, WalkerInv
<1>6. CASE tmp[u] # Null
  <2>1. Continue(u) /\ tmp[u] \in Blocks /\ Next_hh(tmp[u]) \in Blocks \cup {Null}
    BY <1>6, NextType DEF Proceed, ReductionInv, ReductionTypeOK
  <2>2. /\ at'[u] = "visit" /\ el'[u] = tmp[u] /\ tmp'[u] = Next_hh(tmp[u])
        /\ code'[u] = "none" /\ running' = u
    BY <1>2, <2>1 DEF Continue, ReductionInv, ReductionTypeOK
  <2>3. ReductionTypeOK'
    BY <1>1, <1>2, <1>4, <2>1 DEF Continue, ReductionInv, ReductionTypeOK
  <2>4. StreamOf(u)'
    BY <1>2, <1>6, <2>2 DEF StreamOf, Yielded
  <2>5. WalkOf(u)'
    <3>1. CASE u \in torn
      BY <1>1, <1>2, <1>4, <3>1 DEF WalkOf
    <3>2. CASE u \notin torn
      <4>1. /\ tmp[u] \in InTable
            /\ due[u] \subseteq done[u] \cup {Now(u)} \cup Gens(From(tmp[u]))
            /\ (done[u] \cup {Now(u)}) \cap Gens(From(tmp[u])) = {}
        BY <1>6, <3>2 DEF ReductionInv, WalkInv, WalkOf
      <4>2. /\ From(tmp[u]) = {tmp[u]} \cup From(Next_hh(tmp[u]))
            /\ tmp[u] \notin From(Next_hh(tmp[u]))
            /\ Next_hh(tmp[u]) \in InTable \cup {Null}
        BY <4>1, FromNext DEF ReductionInv
      <4>3. /\ Gens(From(tmp[u])) =
                 {metric[tmp[u]].gen} \cup Gens(From(Next_hh(tmp[u])))
            /\ metric[tmp[u]].gen \notin Gens(From(Next_hh(tmp[u])))
        BY <4>1, <4>2, FromInTable, GensDistinct DEF Gens, ReductionInv
      <4>4. Now(u)' = metric[tmp[u]].gen
        BY <1>1, <2>2 DEF Now
      <4>5. Gens(From(tmp[u]))' = Gens(From(Next_hh(tmp[u])))
        <5>1. From(tmp[u])' = From(Next_hh(tmp[u]))
          BY <1>1, <2>2 DEF From
        <5> QED
          BY <1>1, <5>1 DEF Gens
      <4>6. due[u] \subseteq (done[u] \cup {Now(u)}) \cup {metric[tmp[u]].gen}
                               \cup Gens(From(Next_hh(tmp[u])))
        BY <4>1, <4>3
      <4>7. /\ (done[u] \cup {Now(u)}) \cap Gens(From(Next_hh(tmp[u]))) = {}
            /\ metric[tmp[u]].gen \notin done[u] \cup {Now(u)}
        BY <4>1, <4>3
      <4>8. tmp'[u] \in InTable' \cup {Null} /\ el'[u] \in InTable'
        BY <1>1, <2>2, <4>1, <4>2
      <4>9. done'[u] \subseteq 0 .. created'
        BY <1>1, <1>4
      <4>10. due'[u] \subseteq done'[u] \cup {Now(u)'} \cup Gens(From(tmp[u]))'
        BY <1>2, <1>4, <4>4, <4>5, <4>6
      <4>11. /\ (done'[u] \cup {Now(u)'}) \cap Gens(From(tmp[u]))' = {}
             /\ Now(u)' \notin done'[u]
        BY <1>4, <4>3, <4>4, <4>5, <4>7
      <4> QED
        BY <4>8, <4>9, <4>10, <4>11 DEF WalkOf
    <3> QED
      BY <3>1, <3>2
  <2>6. StoreSound'
    BY <1>2, <2>2, StoreFrame DEF Yielded
  <2> QED
    BY <2>3, <2>4, <2>5, <2>6, WalkerInv
<1> QED
  BY <1>5, <1>6

LEMMA VisitIdleInv ==
  ASSUME ReductionInv, NEW u \in Ults, VisitIdle(u)
  PROVE  ReductionInv'
<1>1. at[u] = "visit" /\ Walker(u) /\ Proceed(u, Now(u))
  BY DEF VisitIdle, Walker, Now
<1>2. job[u] = NoJob
  BY <1>1 DEF ReductionInv, StreamInv, StreamOf, Yielded
<1>3. UNCHANGED <<store, kept, due, torn>> /\ job' = job /\ seen' = seen
  BY DEF VisitIdle, storeVars
<1> QED
  BY <1>1, <1>2, <1>3, ProceedInv

LEMMA AdvanceInv ==
  ASSUME ReductionInv, NEW u \in Ults, Advance(u)
  PROVE  ReductionInv'
<1>1. at[u] = "stored" /\ Walker(u) /\ Proceed(u, Now(u))
  BY DEF Advance, Walker, Now
<1>2. /\ UNCHANGED <<store, kept, due, torn>>
      /\ job' = [job EXCEPT ![u] = NoJob] /\ seen' = [seen EXCEPT ![u] = None]
  BY DEF Advance, storeVars
<1> QED
  BY <1>1, <1>2, ProceedInv

(* The metric that a reduction reads, and the one find_metric gives for it. *)
LEMMA VisitLoadFacts ==
  ASSUME ReductionInv, NEW u \in Ults, VisitLoad(u)
  PROVE  \E b \in Blocks :
           /\ job' = [job EXCEPT ![u] =
                [key |-> <<metric[el[u]].name, metric[b].op>>,
                 val |-> [gen |-> metric[el[u]].gen,
                          upto |-> Covered(metric[b].op, metric[el[u]].buffer_index)]]]
           /\ seen' = [seen EXCEPT ![u] = store[<<metric[el[u]].name, metric[b].op>>]]
           /\ at' = [at EXCEPT ![u] = IF metric[b].op = "STORE" THEN "put" ELSE "erase"]
           /\ RegistryInv /\ el[u] \in Blocks /\ metric[el[u]] \in Metric
           /\ metric[el[u]].buffer_index > 0
           /\ metric[b].op \in Ops /\ metric[el[u]].name \in Names
<1>1. PICK b \in Found(metric[el[u]].name) :
        /\ metric[b].op # "NULL"
        /\ job' = [job EXCEPT ![u] =
             [key |-> <<metric[el[u]].name, metric[b].op>>,
              val |-> [gen |-> metric[el[u]].gen,
                       upto |-> Covered(metric[b].op, metric[el[u]].buffer_index)]]]
        /\ seen' = [seen EXCEPT ![u] = store[<<metric[el[u]].name, metric[b].op>>]]
        /\ at' = [at EXCEPT ![u] = IF metric[b].op = "STORE" THEN "put" ELSE "erase"]
  BY DEF VisitLoad
<1>2. RegistryInv /\ InTable \subseteq Blocks
  BY TableFacts DEF ReductionInv
<1>3. el[u] \in Blocks /\ metric[el[u]].buffer_index > 0
  BY DEF VisitLoad, ReductionInv, ReductionTypeOK, StreamInv, StreamOf
<1>4. b \in InTable /\ metric[b].name = metric[el[u]].name
  BY <1>1 DEF Found
<1>5. metric[b].name \in Names
  BY <1>2, <1>4 DEF RegistryInv, Numbered
<1>6. metric[el[u]] \in Metric /\ metric[b].op \in Ops
  BY <1>1, <1>2, <1>3, <1>4 DEF RegistryInv, RegistryTypeOK, Metric
<1> QED
  BY <1>1, <1>2, <1>3, <1>4, <1>5, <1>6

(* What a reduction is about to write, and what the store had under the key,
   is about the metric it has just read. *)
LEMMA VisitLoadInv ==
  ASSUME ReductionInv, NEW u \in Ults, VisitLoad(u)
  PROVE  ReductionInv'
<1>0. Walker(u)
  BY DEF Walker
<1>1. PICK b \in Blocks :
        /\ job' = [job EXCEPT ![u] =
             [key |-> <<metric[el[u]].name, metric[b].op>>,
              val |-> [gen |-> metric[el[u]].gen,
                       upto |-> Covered(metric[b].op, metric[el[u]].buffer_index)]]]
        /\ seen' = [seen EXCEPT ![u] = store[<<metric[el[u]].name, metric[b].op>>]]
        /\ at' = [at EXCEPT ![u] = IF metric[b].op = "STORE" THEN "put" ELSE "erase"]
        /\ RegistryInv /\ el[u] \in Blocks /\ metric[el[u]] \in Metric
        /\ metric[el[u]].buffer_index > 0
        /\ metric[b].op \in Ops /\ metric[el[u]].name \in Names
  BY VisitLoadFacts
<1> DEFINE m == metric[el[u]]
<1> DEFINE key == <<m.name, metric[b].op>>
<1> DEFINE val == [gen |-> m.gen, upto |-> Covered(metric[b].op, m.buffer_index)]
<1>2. /\ at[u] = "visit" /\ m.buffer_index > 0 /\ running' = Nobody
      /\ UNCHANGED <<store, kept, el, tmp, code, due, done, torn>>
  BY DEF VisitLoad, storeVars
<1>3. /\ RegistryInv /\ el[u] \in Blocks /\ m \in Metric /\ b \in Blocks
      /\ metric[b].op \in Ops /\ m.name \in Names
  BY <1>1
<1>4. key \in Keys /\ val \in Value
  BY <1>3 DEF Keys, Value, Covered, Metric
<1>5. Covers(key, val)
  <2>1. ASSUME NEW c \in Blocks, metric[c].gen = m.gen PROVE c = el[u]
    BY <1>3, <2>1 DEF RegistryInv, Numbered
  <2>2. m.gen <= created
    BY <1>3, GensType
  <2>3. val.upto <= m.buffer_index /\ (metric[b].op = "STORE" => val.upto <= 1)
    BY <1>2, <1>3 DEF Covered, Metric
  <2> QED
    BY <2>1, <2>2, <2>3 DEF Covers
<1> HIDE DEF key, val
<1>6. /\ at'[u] \in {"put", "erase"} /\ job'[u] = [key |-> key, val |-> val]
      /\ el'[u] = el[u] /\ tmp'[u] = tmp[u] /\ code'[u] = code[u]
      /\ due'[u] = due[u] /\ done'[u] = done[u] /\ seen'[u] = store[key]
  BY <1>1, <1>2 DEF ReductionInv, ReductionTypeOK, key, val
<1>7. /\ UNCHANGED <<table, metric, created>> /\ InTable' = InTable /\ RegistryTypeOK'
  BY <1>0, WalkerRegistry DEF ReductionInv, InTable, RegistryInv
<1>8. ReductionTypeOK'
  <2>1. job' \in [Ults -> [key : Keys, val : Value] \cup {NoJob}]
    BY <1>1, <1>4 DEF ReductionInv, ReductionTypeOK, key, val
  <2>2. seen' \in [Ults -> Value \cup {None}]
    <3>1. store[key] \in Value \cup {None}
      BY <1>4 DEF ReductionInv, ReductionTypeOK
    <3> QED
      BY <1>1, <3>1 DEF ReductionInv, ReductionTypeOK, key
  <2>3. at' \in [Ults -> {"idle", "visit"} \cup Yielded]
    BY <1>1 DEF ReductionInv, ReductionTypeOK, Yielded
  <2> QED
    BY <1>2, <1>7, <2>1, <2>2, <2>3 DEF ReductionInv, ReductionTypeOK
<1>9. StreamOf(u)'
  <2>1. [key |-> key, val |-> val] # NoJob
    <3>1. val # None
      BY <1>4, NoneAssumption DEF Value
    <3>2. [key |-> key, val |-> val].val = val /\ NoJob.val = None
      BY DEF NoJob
    <3> QED
      BY <3>1, <3>2
  <2>2. el[u] # Null /\ code[u] = "none"
    BY <1>2 DEF ReductionInv, StreamInv, StreamOf
  <2> QED
    BY <1>2, <1>6, <2>1, <2>2, ReducersAssumption DEF StreamOf, Yielded
<1>10. WalkOf(u)'
  <2>1. Now(u)' = Now(u)
    BY <1>2, <1>6 DEF Now, val
  <2>2. From(tmp[u])' = From(tmp[u])
    BY <1>6, <1>7 DEF From
  <2>3. Gens(From(tmp[u]))' = Gens(From(tmp[u]))
    BY <1>7, <2>2 DEF Gens
  <2> QED
    BY <1>2, <1>6, <1>7, <2>1, <2>3 DEF ReductionInv, WalkInv, WalkOf
<1>11. StoreSound'
  <2>1. \A v \in Ults : v # u => at'[v] = at[v] /\ job'[v] = job[v] /\ seen'[v] = seen[v]
    BY <1>0, WalkerFrame DEF ReductionInv
  <2>2. ASSUME NEW k \in Keys, store'[k] # None PROVE Covers(k, store[k])'
    BY <1>2, <1>7, <2>2 DEF ReductionInv, StoreSound, Covers
  <2>3. ASSUME NEW v \in Ults, at'[v] \in Yielded PROVE Covers(job[v].key, job[v].val)'
    <3>1. CASE v = u
      BY <1>5, <1>6, <1>7, <3>1 DEF Covers
    <3>2. CASE v # u
      BY <1>7, <2>1, <2>3, <3>2 DEF ReductionInv, StoreSound, Covers
    <3> QED
      BY <3>1, <3>2
  <2>4. ASSUME NEW v \in Ults, seen'[v] # None PROVE Covers(job[v].key, seen[v])'
    <3>1. CASE v = u
      <4>1. Covers(key, store[key])
        BY <1>4, <1>6, <2>4, <3>1 DEF ReductionInv, StoreSound
      <4> QED
        BY <1>6, <1>7, <3>1, <4>1 DEF Covers
    <3>2. CASE v # u
      BY <1>7, <2>1, <2>4, <3>2 DEF ReductionInv, StoreSound, Covers
    <3> QED
      BY <3>1, <3>2
  <2> QED
    BY <2>2, <2>3, <2>4 DEF StoreSound
<1> QED
  BY <1>0, <1>8, <1>9, <1>10, <1>11, WalkerInv

(* A remote call moves a reduction on and may change what is under its key. *)
LEMMA RemoteStep ==
  ASSUME ReductionInv, NEW u \in Ults, Remote(u)
  PROVE  /\ Walker(u) /\ at[u] \in Yielded
         /\ at' \in {[at EXCEPT ![u] = "put"], [at EXCEPT ![u] = "stored"]}
         /\ store' \in {store, [store EXCEPT ![job[u].key] = None],
                        [store EXCEPT ![job[u].key] = job[u].val]}
         /\ kept' \in {kept, kept \cup {job[u].key}, kept \ {job[u].key}}
         /\ UNCHANGED <<table, metric, created, running, el, tmp, job, code, seen, due, done, torn>>
         /\ job[u].key \in Keys /\ job[u].val \in Value
<1>1. Walker(u) /\ at[u] \in Yielded
  BY DEF Remote, Walker, Erase, EraseLost, Put, PutLost, Yielded
<1>2. job[u].key \in Keys /\ job[u].val \in Value
  BY <1>1 DEF ReductionInv, ReductionTypeOK, StreamInv, StreamOf
<1>3. CASE Erase(u) \/ EraseLost(u)
  BY <1>1, <1>2, <1>3 DEF Erase, EraseLost, registryVars, storeVars
<1>4. CASE Put(u) \/ PutLost(u)
  BY <1>1, <1>2, <1>4 DEF Put, PutLost, registryVars, storeVars
<1> QED
  BY <1>3, <1>4 DEF Remote

LEMMA RemoteInv ==
  ASSUME ReductionInv, NEW u \in Ults, Remote(u)
  PROVE  ReductionInv'
<1>1. /\ Walker(u) /\ at[u] \in Yielded
      /\ at' \in {[at EXCEPT ![u] = "put"], [at EXCEPT ![u] = "stored"]}
      /\ store' \in {store, [store EXCEPT ![job[u].key] = None],
                     [store EXCEPT ![job[u].key] = job[u].val]}
      /\ kept' \in {kept, kept \cup {job[u].key}, kept \ {job[u].key}}
      /\ UNCHANGED <<table, metric, created, running, el, tmp, job, code, seen, due, done, torn>>
      /\ job[u].key \in Keys /\ job[u].val \in Value
  BY RemoteStep
<1>2. /\ at'[u] \in Yielded /\ at'[u] \notin {"idle", "visit"}
      /\ \A v \in Ults : v # u => at'[v] = at[v]
  BY <1>1 DEF ReductionInv, ReductionTypeOK, Yielded
<1>3. at[u] \notin {"idle", "visit"} /\ InTable' = InTable /\ RegistryTypeOK'
  BY <1>1, WalkerRegistry DEF Yielded, InTable, ReductionInv, RegistryInv
<1>4. ReductionTypeOK'
  <2>1. at' \in [Ults -> {"idle", "visit"} \cup Yielded]
    BY <1>1 DEF ReductionInv, ReductionTypeOK, Yielded
  <2>2. store' \in [Keys -> Value \cup {None}] /\ kept' \subseteq Keys
    BY <1>1 DEF ReductionInv, ReductionTypeOK
  <2> QED
    BY <1>1, <1>3, <2>1, <2>2 DEF ReductionInv, ReductionTypeOK
<1>5. StreamOf(u)'
  BY <1>1, <1>2, <1>3 DEF ReductionInv, StreamInv, StreamOf
<1>6. WalkOf(u)'
  <2>1. Now(u)' = Now(u)
    BY <1>1, <1>2, <1>3 DEF Now
  <2>2. From(tmp[u])' = From(tmp[u])
    BY <1>1, <1>3 DEF From
  <2>3. Gens(From(tmp[u]))' = Gens(From(tmp[u]))
    BY <1>1, <2>2 DEF Gens
  <2> QED
    BY <1>1, <1>2, <1>3, <2>1, <2>3 DEF ReductionInv, WalkInv, WalkOf
<1>7. StoreSound'
  <2>1. Covers(job[u].key, job[u].val)
    BY <1>1 DEF ReductionInv, StoreSound
  <2>2. ASSUME NEW k \in Keys, store'[k] # None PROVE Covers(k, store[k])'
    <3>1. store'[k] = store[k] \/ (k = job[u].key /\ store'[k] = job[u].val)
      BY <1>1, <2>2 DEF ReductionInv, ReductionTypeOK
    <3>2. Covers(k, store'[k])
      BY <2>1, <2>2, <3>1 DEF ReductionInv, StoreSound
    <3> QED
      BY <1>1, <3>2 DEF Covers
  <2>3. ASSUME NEW v \in Ults, at'[v] \in Yielded PROVE Covers(job[v].key, job[v].val)'
    <3>1. at[v] \in Yielded
      BY <1>1, <1>2, <2>3
    <3> QED
      BY <1>1, <3>1 DEF ReductionInv, StoreSound, Covers
  <2>4. ASSUME NEW v \in Ults, seen'[v] # None PROVE Covers(job[v].key, seen[v])'
    BY <1>1, <2>4 DEF ReductionInv, StoreSound, Covers
  <2> QED
    BY <2>2, <2>3, <2>4 DEF StoreSound
<1> QED
  BY <1>1, <1>4, <1>5, <1>6, <1>7, WalkerInv

-----------------------------------------------------------------------------
(* The steps of the application. *)

(* A metric keeps its name, and its samples only grow: what was computed from
   them stays so. *)
LEMMA CoversStable ==
  ASSUME NEW key, NEW val, Covers(key, val),
         created \in Nat, created' \in Nat, created <= created', val.gen \in Nat,
         \A c \in Blocks : metric'[c].gen = val.gen =>
           /\ metric[c].gen = val.gen
           /\ metric'[c].name = metric[c].name
           /\ metric[c].buffer_index <= metric'[c].buffer_index,
         \A c \in Blocks : metric[c].buffer_index \in Nat /\ metric'[c].buffer_index \in Nat,
         val.upto \in Nat
  PROVE  Covers(key, val)'
<1>1. val.gen <= created'
  BY DEF Covers
<1>2. ASSUME NEW c \in Blocks, metric'[c].gen = val.gen
      PROVE  metric'[c].name = key[1] /\ val.upto <= metric'[c].buffer_index
  BY <1>2 DEF Covers
<1> QED
  BY <1>1, <1>2 DEF Covers

(* What the application must leave true of every walk. *)
LEMMA AppInv ==
  ASSUME ReductionInv, RegistryInv', running = Nobody,
         UNCHANGED <<store, kept, running, at, el, tmp, job, code, seen, done>>,
         created <= created',
         \A c \in Blocks : metric'[c].gen <= created =>
           /\ metric'[c].gen = metric[c].gen
           /\ metric'[c].name = metric[c].name
           /\ metric[c].buffer_index <= metric'[c].buffer_index,
         due' \in [Ults -> SUBSET Nat], torn' \subseteq Ults,
         \A u \in Ults : at[u] # "idle" /\ u \notin torn' =>
           /\ u \notin torn
           /\ tmp[u] \in InTable' \cup {Null}
           /\ due'[u] \subseteq done[u] \cup {Now(u)} \cup Gens(From(tmp[u]))'
           /\ \A g \in Gens(From(tmp[u]))' : g <= created => g \in Gens(From(tmp[u]))
  PROVE  ReductionInv'
<1>1. /\ created \in Nat /\ created' \in Nat /\ RegistryTypeOK'
      /\ \A c \in Blocks : metric[c].buffer_index \in Nat /\ metric'[c].buffer_index \in Nat
                           /\ metric'[c].gen \in Nat
  BY DEF ReductionInv, RegistryInv, RegistryTypeOK, Metric
<1>2. ASSUME NEW u \in Ults PROVE at[u] # "visit"
  BY ReducersAssumption DEF ReductionInv, StreamInv, StreamOf
<1>3. ReductionTypeOK'
  BY <1>1 DEF ReductionInv, ReductionTypeOK
<1>4. StreamInv'
  BY DEF ReductionInv, StreamInv, StreamOf
<1>5. ASSUME NEW key, NEW val \in Value, Covers(key, val) PROVE Covers(key, val)'
  <2>1. val.gen \in Nat /\ val.upto \in Nat /\ val.gen <= created
    BY <1>5 DEF Value, Covers
  <2> QED
    BY <1>1, <1>5, <2>1, CoversStable
<1>6. StoreSound'
  <2>1. ASSUME NEW k \in Keys, store[k] # None PROVE Covers(k, store[k])'
    <3>1. store[k] \in Value /\ Covers(k, store[k])
      BY <2>1 DEF ReductionInv, ReductionTypeOK, StoreSound
    <3> QED
      BY <1>5, <3>1 DEF Covers
  <2>2. ASSUME NEW v \in Ults, at[v] \in Yielded PROVE Covers(job[v].key, job[v].val)'
    <3>1. job[v].val \in Value /\ Covers(job[v].key, job[v].val)
      BY <2>2 DEF ReductionInv, ReductionTypeOK, StreamInv, StreamOf, StoreSound
    <3> QED
      BY <1>5, <3>1 DEF Covers
  <2>3. ASSUME NEW v \in Ults, seen[v] # None PROVE Covers(job[v].key, seen[v])'
    <3>1. seen[v] \in Value /\ Covers(job[v].key, seen[v])
      BY <2>3 DEF ReductionInv, ReductionTypeOK, StoreSound
    <3> QED
      BY <1>5, <3>1 DEF Covers
  <2> QED
    BY <2>1, <2>2, <2>3 DEF StoreSound
<1>7. ASSUME NEW u \in Ults PROVE WalkOf(u)'
  <2>1. done[u] \subseteq 0 .. created /\ done[u] \subseteq 0 .. created'
    BY <1>1 DEF ReductionInv, WalkInv, WalkOf
  <2>2. CASE at[u] = "idle" \/ u \in torn'
    BY <2>1, <2>2 DEF WalkOf
  <2>3. CASE at[u] # "idle" /\ u \notin torn'
    <3>1. Now(u) \in Nat /\ Now(u) <= created
      BY <2>3, NowType
    <3>2. Now(u)' = Now(u)
      BY <1>2 DEF Now
    <3>3. /\ (done[u] \cup {Now(u)}) \cap Gens(From(tmp[u])) = {}
          /\ Now(u) \notin done[u]
      BY <2>3 DEF ReductionInv, WalkInv, WalkOf
    <3>4. (done[u] \cup {Now(u)}) \cap Gens(From(tmp[u]))' = {}
      <4>1. \A g \in done[u] \cup {Now(u)} : g <= created
        BY <1>1, <2>1, <3>1
      <4> QED
        BY <2>3, <3>3, <4>1
    <3>5. /\ tmp[u] \in InTable' \cup {Null}
          /\ due'[u] \subseteq done[u] \cup {Now(u)} \cup Gens(From(tmp[u]))'
      BY <2>3
    <3> QED
      BY <1>2, <2>1, <3>2, <3>3, <3>4, <3>5 DEF WalkOf
  <2> QED
    BY <2>2, <2>3
<1> QED
  BY <1>3, <1>4, <1>6, <1>7 DEF ReductionInv, WalkInv

(* What lies ahead of a walk that is not torn, and what is due. *)
LEMMA AheadOf ==
  ASSUME ReductionInv, NEW u \in Ults, at[u] # "idle", u \notin torn
  PROVE  /\ tmp[u] \in InTable \cup {Null}
         /\ due[u] \subseteq done[u] \cup {Now(u)} \cup Gens(From(tmp[u]))
  BY DEF ReductionInv, WalkInv, WalkOf

(* Where HASH_ADD puts a metric. *)
LEMMA CreateTable ==
  ASSUME RegistryInv, NEW n \in Names, NEW op \in Ops, Create(n, op)
  PROVE  \E b \in Blocks \ InTable :
           /\ metric' = [metric EXCEPT ![b] =
                [name |-> n, op |-> op, gen |-> created + 1, buffer_index |-> 0]]
           /\ Len(table) \in Nat
           /\ DOMAIN table = 1 .. Len(table)
           /\ DOMAIN table' = 1 .. Len(table) + 1
           /\ \A i \in 1 .. Len(table) : table'[i] = table[i]
           /\ table'[Len(table) + 1] = b
<1>1. PICK b \in Free :
        /\ metric' = [metric EXCEPT ![b] =
             [name |-> n, op |-> op, gen |-> created + 1, buffer_index |-> 0]]
        /\ table' = Append(table, b)
  BY DEF Create
<1>2. b \in Blocks \ InTable
  BY <1>1 DEF Free
<1>3. /\ table' \in Seq(Blocks) /\ Len(table') = Len(table) + 1
      /\ \A i \in 1 .. Len(table) : table'[i] = table[i]
      /\ table'[Len(table) + 1] = b
  BY <1>1, <1>2, AppendProperties DEF RegistryInv, RegistryTypeOK
<1>4. Len(table) \in Nat /\ DOMAIN table = 1 .. Len(table) /\ DOMAIN table' = 1 .. Len(table) + 1
  BY <1>3, LenProperties DEF RegistryInv, RegistryTypeOK
<1> QED
  BY <1>1, <1>2, <1>3, <1>4

LEMMA CreateReductionInv ==
  ASSUME ReductionInv, NEW n \in Names, NEW op \in Ops, Create(n, op),
         running = Nobody, UNCHANGED <<storeVars, walkVars>>
  PROVE  ReductionInv'
<1>1. RegistryInv /\ RegistryInv' /\ created \in Nat /\ created' = created + 1
  BY CreateInv DEF ReductionInv, RegistryInv, RegistryTypeOK, Create
<1>2. PICK b \in Blocks \ InTable :
        /\ metric' = [metric EXCEPT ![b] =
             [name |-> n, op |-> op, gen |-> created + 1, buffer_index |-> 0]]
        /\ Len(table) \in Nat
        /\ DOMAIN table = 1 .. Len(table)
        /\ DOMAIN table' = 1 .. Len(table) + 1
        /\ \A i \in 1 .. Len(table) : table'[i] = table[i]
        /\ table'[Len(table) + 1] = b
  BY <1>1, CreateTable
<1>3. /\ metric \in [Blocks -> Metric]
      /\ metric'[b].gen = created + 1
      /\ \A c \in Blocks \ {b} : metric'[c] = metric[c]
      /\ \A c \in Blocks : metric[c].buffer_index \in Nat
  BY <1>1, <1>2 DEF RegistryInv, RegistryTypeOK, Metric
<1>4. InTable \subseteq InTable' /\ InTable' \subseteq InTable \cup {b}
  BY <1>2 DEF InTable
<1>5. ASSUME NEW u \in Ults, at[u] # "idle", u \notin torn
      PROVE  /\ tmp[u] \in InTable' \cup {Null}
             /\ due[u] \subseteq done[u] \cup {Now(u)} \cup Gens(From(tmp[u]))'
             /\ \A g \in Gens(From(tmp[u]))' : g <= created => g \in Gens(From(tmp[u]))
  <2>1. tmp'[u] = tmp[u]
    BY DEF walkVars
  <2>2. tmp[u] \in InTable \cup {Null} /\ tmp[u] # b
    BY <1>2, <1>5, AheadOf, BlocksAssumption
  <2>3. From(tmp[u]) \subseteq From(tmp[u])'
    BY <1>2, <1>4, <2>1 DEF From
  <2>4. From(tmp[u])' \subseteq From(tmp[u]) \cup {b}
    <3>1. ASSUME NEW c \in From(tmp[u])', c # b PROVE c \in From(tmp[u])
      <4>1. PICK i \in 1 .. Len(table) + 1, j \in 1 .. Len(table) + 1 :
              table'[i] = tmp[u] /\ table'[j] = c /\ i <= j
        BY <1>2, <2>1 DEF From
      <4>2. i \in 1 .. Len(table) /\ j \in 1 .. Len(table)
        BY <1>2, <2>2, <3>1, <4>1
      <4>3. table[i] = tmp[u] /\ table[j] = c
        BY <1>2, <4>1, <4>2
      <4> QED
        BY <1>2, <4>1, <4>2, <4>3 DEF From, InTable
    <3> QED
      BY <3>1
  <2>5. From(tmp[u]) \subseteq Blocks \ {b}
    BY <1>1, <1>2, FromInTable, TableFacts
  <2>6. Gens(From(tmp[u])) \subseteq Gens(From(tmp[u]))'
    BY <1>3, <2>3, <2>5 DEF Gens
  <2>7. ASSUME NEW g \in Gens(From(tmp[u]))', g <= created PROVE g \in Gens(From(tmp[u]))
    <3>1. PICK c \in From(tmp[u])' : g = metric'[c].gen
      BY DEF Gens
    <3>2. c # b
      BY <1>1, <1>3, <2>7, <3>1
    <3>3. c \in From(tmp[u]) /\ metric'[c] = metric[c]
      BY <1>3, <2>4, <2>5, <3>2
    <3> QED
      BY <3>1, <3>3 DEF Gens
  <2> QED
    BY <1>4, <1>5, <2>2, <2>6, <2>7, AheadOf
<1>6. ASSUME NEW c \in Blocks, metric'[c].gen <= created
      PROVE  /\ metric'[c].gen = metric[c].gen
             /\ metric'[c].name = metric[c].name
             /\ metric[c].buffer_index <= metric'[c].buffer_index
  <2>1. c # b
    BY <1>1, <1>3, <1>6
  <2> QED
    BY <1>3, <2>1
<1>7. UNCHANGED <<store, kept, running, at, el, tmp, job, code, seen, done>> /\ due' = due /\ torn' = torn
  BY DEF walkVars, storeVars
<1>8. due' \in [Ults -> SUBSET Nat] /\ torn' \subseteq Ults /\ created <= created'
  BY <1>1, <1>7 DEF ReductionInv, ReductionTypeOK
<1> QED
  BY <1>1, <1>5, <1>6, <1>7, <1>8, AppInv

LEMMA UpdateReductionInv ==
  ASSUME ReductionInv, NEW b \in Blocks, Update(b),
         running = Nobody, UNCHANGED <<storeVars, walkVars>>
  PROVE  ReductionInv'
<1>1. /\ RegistryInv /\ RegistryInv' /\ created \in Nat
      /\ table' = table /\ created' = created /\ InTable' = InTable
  BY UpdateInv DEF ReductionInv, RegistryInv, RegistryTypeOK, Update, InTable
<1>2. \A c \in Blocks :
        /\ metric'[c].gen = metric[c].gen
        /\ metric'[c].name = metric[c].name
        /\ metric[c].buffer_index <= metric'[c].buffer_index
  <2>1. metric \in [Blocks -> Metric]
    BY <1>1 DEF RegistryInv, RegistryTypeOK
  <2>2. ASSUME NEW c \in Blocks, c # b PROVE metric'[c] = metric[c]
    BY <2>1, <2>2 DEF Update
  <2>3. /\ metric'[b].gen = metric[b].gen
        /\ metric'[b].name = metric[b].name
        /\ metric'[b].buffer_index = metric[b].buffer_index + 1
    BY <2>1 DEF Update, Metric
  <2>4. \A c \in Blocks : metric[c].buffer_index \in Nat
    BY <2>1 DEF Metric
  <2> QED
    BY <2>2, <2>3, <2>4
<1>3. ASSUME NEW u \in Ults, at[u] # "idle", u \notin torn
      PROVE  /\ tmp[u] \in InTable' \cup {Null}
             /\ due[u] \subseteq done[u] \cup {Now(u)} \cup Gens(From(tmp[u]))'
             /\ \A g \in Gens(From(tmp[u]))' : g <= created => g \in Gens(From(tmp[u]))
  <2>1. From(tmp[u])' = From(tmp[u]) /\ From(tmp[u]) \subseteq Blocks
    BY <1>1, FromInTable, TableFacts DEF From, walkVars
  <2>2. Gens(From(tmp[u]))' = Gens(From(tmp[u]))
    BY <1>2, <2>1 DEF Gens
  <2> QED
    BY <1>1, <1>3, <2>2, AheadOf
<1>4. UNCHANGED <<store, kept, running, at, el, tmp, job, code, seen, done>> /\ due' = due /\ torn' = torn
  BY DEF walkVars, storeVars
<1>5. due' \in [Ults -> SUBSET Nat] /\ torn' \subseteq Ults /\ created <= created'
  BY <1>1, <1>4 DEF ReductionInv, ReductionTypeOK
<1> QED
  BY <1>1, <1>2, <1>3, <1>4, <1>5, AppInv

(* What lies ahead of a metric that stays, after another is removed. *)
LEMMA DestroyFrom ==
  ASSUME RegistryInv, NEW b \in Blocks, Destroy(b), NEW u \in Ults, tmp' = tmp, tmp[u] # b
  PROVE  From(tmp[u])' = From(tmp[u]) \ {b} /\ InTable' = InTable \ {b}
<1>1. PICK p \in 1 .. Len(table) :
        /\ table[p] = b
        /\ table' \in Seq(Blocks)
        /\ Len(table) \in Nat
        /\ DOMAIN table = 1 .. Len(table)
        /\ Len(table') = Len(table) - 1
        /\ DOMAIN table' = 1 .. Len(table) - 1
        /\ \A j \in 1 .. Len(table) - 1 :
             table'[j] = IF j < p THEN table[j] ELSE table[j + 1]
  BY DestroyTable
<1> DEFINE was(j) == IF j < p THEN j ELSE j + 1
<1> DEFINE is(j) == IF j < p THEN j ELSE j - 1
<1>2. ASSUME NEW j \in 1 .. Len(table) - 1
      PROVE  was(j) \in 1 .. Len(table) /\ table'[j] = table[was(j)] /\ was(j) # p
  BY <1>1
<1>3. ASSUME NEW j \in 1 .. Len(table), j # p
      PROVE  is(j) \in 1 .. Len(table) - 1 /\ table'[is(j)] = table[j]
  BY <1>1, <1>3
<1>4. \A j \in 1 .. Len(table) : table[j] = b => j = p
  BY <1>1, TableFacts
<1>5. InTable' = InTable \ {b}
  <2>1. ASSUME NEW c \in InTable' PROVE c \in InTable \ {b}
    <3>1. PICK j \in 1 .. Len(table) - 1 : table'[j] = c
      BY <1>1, <2>1 DEF InTable
    <3> QED
      BY <1>1, <1>2, <1>4, <3>1 DEF InTable
  <2>2. ASSUME NEW c \in InTable, c # b PROVE c \in InTable'
    <3>1. PICK j \in 1 .. Len(table) : table[j] = c
      BY <1>1 DEF InTable
    <3>2. j # p
      BY <1>1, <2>2, <3>1
    <3>3. is(j) \in 1 .. Len(table) - 1 /\ table'[is(j)] = c
      BY <1>3, <3>1, <3>2
    <3> QED
      BY <1>1, <3>3 DEF InTable
  <2> QED
    BY <2>1, <2>2
<1>6. ASSUME NEW c \in From(tmp[u])' PROVE c \in From(tmp[u]) \ {b}
  <2>1. PICK i \in 1 .. Len(table) - 1, j \in 1 .. Len(table) - 1 :
          table'[i] = tmp[u] /\ table'[j] = c /\ i <= j
    BY <1>1, <1>6 DEF From
  <2>2. table[was(i)] = tmp[u] /\ table[was(j)] = c /\ c # b
    BY <1>2, <1>4, <2>1
  <2>3. was(i) <= was(j) /\ was(i) \in DOMAIN table /\ was(j) \in DOMAIN table
    BY <1>1, <1>2, <2>1
  <2>4. c \in InTable
    BY <2>2, <2>3 DEF InTable
  <2> HIDE DEF was
  <2> QED
    BY <2>2, <2>3, <2>4 DEF From
<1>7. ASSUME NEW c \in From(tmp[u]), c # b PROVE c \in From(tmp[u])'
  <2>1. PICK i \in 1 .. Len(table), j \in 1 .. Len(table) :
          table[i] = tmp[u] /\ table[j] = c /\ i <= j
    BY <1>1 DEF From
  <2>2. i # p /\ j # p
    BY <1>1, <1>7, <2>1
  <2>3. is(i) <= is(j)
    BY <1>1, <2>1, <2>2
  <2>4. /\ table'[is(i)] = tmp[u] /\ table'[is(j)] = c
        /\ is(i) \in DOMAIN table' /\ is(j) \in DOMAIN table'
    BY <1>1, <1>3, <2>1, <2>2
  <2>5. c \in InTable'
    BY <2>4 DEF InTable
  <2> HIDE DEF is
  <2> QED
    BY <2>3, <2>4, <2>5 DEF From
<1> QED
  BY <1>5, <1>6, <1>7

(* The metrics in S are destroyed: the walks whose next one is in S are torn,
   and nobody waits for S any more. *)
LEMMA TearFacts ==
  ASSUME ReductionTypeOK, NEW S \in SUBSET Blocks, Tear(S), UNCHANGED storeVars
  PROVE  /\ UNCHANGED <<store, kept, running, at, el, tmp, job, code, seen, done>>
         /\ due' \in [Ults -> SUBSET Nat] /\ torn' \subseteq Ults
         /\ \A u \in Ults : at[u] # "idle" =>
              /\ due'[u] = due[u] \ Gens(S)
              /\ u \notin torn' => u \notin torn /\ tmp[u] \notin S
  BY DEF Tear, ReductionTypeOK, storeVars

LEMMA DestroyReductionInv ==
  ASSUME ReductionInv, NEW b \in Blocks, Destroy(b), Tear({b}),
         running = Nobody, UNCHANGED storeVars
  PROVE  ReductionInv'
<1>1. /\ RegistryInv /\ RegistryInv' /\ created \in Nat
      /\ metric' = metric /\ created' = created
  BY DestroyInv DEF ReductionInv, RegistryInv, RegistryTypeOK, Destroy
<1>2. /\ UNCHANGED <<store, kept, running, at, el, tmp, job, code, seen, done>>
      /\ due' \in [Ults -> SUBSET Nat] /\ torn' \subseteq Ults
      /\ \A u \in Ults : at[u] # "idle" =>
           /\ due'[u] = due[u] \ Gens({b})
           /\ u \notin torn' => u \notin torn /\ tmp[u] \notin {b}
  BY TearFacts DEF ReductionInv
<1>3. ASSUME NEW u \in Ults, at[u] # "idle", u \notin torn'
      PROVE  /\ u \notin torn
             /\ tmp[u] \in InTable' \cup {Null}
             /\ due'[u] \subseteq done[u] \cup {Now(u)} \cup Gens(From(tmp[u]))'
             /\ \A g \in Gens(From(tmp[u]))' : g <= created => g \in Gens(From(tmp[u]))
  <2>1. u \notin torn /\ tmp[u] # b /\ due'[u] = due[u] \ {metric[b].gen}
    BY <1>2, <1>3 DEF Gens
  <2>2. From(tmp[u])' = From(tmp[u]) \ {b} /\ InTable' = InTable \ {b}
    BY <1>1, <1>2, <2>1, DestroyFrom
  <2>3. Gens(From(tmp[u]))' = {metric[c].gen : c \in From(tmp[u]) \ {b}}
    BY <1>1, <2>2 DEF Gens
  <2>4. Gens(From(tmp[u])) \subseteq Gens(From(tmp[u]))' \cup {metric[b].gen}
    BY <2>3 DEF Gens
  <2>5. Gens(From(tmp[u]))' \subseteq Gens(From(tmp[u]))
    BY <2>3 DEF Gens
  <2>6. /\ tmp[u] \in InTable \cup {Null}
        /\ due[u] \subseteq done[u] \cup {Now(u)} \cup Gens(From(tmp[u]))
    BY <1>3, <2>1, AheadOf
  <2> QED
    BY <2>1, <2>2, <2>4, <2>5, <2>6
<1>4. \A c \in Blocks : metric[c].buffer_index <= metric'[c].buffer_index
  BY <1>1 DEF RegistryInv, RegistryTypeOK, Metric
<1> QED
  BY <1>1, <1>2, <1>3, <1>4, AppInv

LEMMA DestroyAllReductionInv ==
  ASSUME ReductionInv, DestroyAll, Tear(InTable),
         running = Nobody, UNCHANGED storeVars
  PROVE  ReductionInv'
<1>1. /\ RegistryInv /\ RegistryInv' /\ created \in Nat
      /\ metric' = metric /\ created' = created /\ table' = << >>
  BY DestroyAllInv DEF ReductionInv, RegistryInv, RegistryTypeOK, DestroyAll
<1>2. InTable \in SUBSET Blocks
  BY <1>1, TableFacts
<1>3. /\ UNCHANGED <<store, kept, running, at, el, tmp, job, code, seen, done>>
      /\ due' \in [Ults -> SUBSET Nat] /\ torn' \subseteq Ults
      /\ \A u \in Ults : at[u] # "idle" =>
           /\ due'[u] = due[u] \ Gens(InTable)
           /\ u \notin torn' => u \notin torn /\ tmp[u] \notin InTable
  BY <1>2, TearFacts DEF ReductionInv
<1>4. ASSUME NEW u \in Ults, at[u] # "idle", u \notin torn'
      PROVE  /\ u \notin torn
             /\ tmp[u] \in InTable' \cup {Null}
             /\ due'[u] \subseteq done[u] \cup {Now(u)} \cup Gens(From(tmp[u]))'
             /\ \A g \in Gens(From(tmp[u]))' : g <= created => g \in Gens(From(tmp[u]))
  <2>1. tmp[u] = Null /\ due[u] \subseteq done[u] \cup {Now(u)} \cup Gens(From(tmp[u]))
    BY <1>3, <1>4, AheadOf
  <2>2. Gens(From(tmp[u])) = {}
    BY <1>1, <2>1, FromNull DEF Gens
  <2>3. Gens(From(tmp[u]))' = {}
    BY <1>1 DEF Gens, From, InTable
  <2> QED
    BY <1>3, <1>4, <2>1, <2>2, <2>3
<1>5. \A c \in Blocks : metric[c].buffer_index <= metric'[c].buffer_index
  BY <1>1 DEF RegistryInv, RegistryTypeOK, Metric
<1> QED
  BY <1>1, <1>3, <1>4, <1>5, AppInv

-----------------------------------------------------------------------------
LEMMA ReductionInitInv == ReductionInit => ReductionInv
<1> SUFFICES ASSUME ReductionInit PROVE ReductionInv
  OBVIOUS
<1> USE DEF ReductionInit, NoReduction
<1>1. RegistryInv
  BY RegistryInitInv
<1>2. ReductionTypeOK
  BY <1>1 DEF ReductionTypeOK, RegistryInv
<1>3. StreamInv
  BY ReducersAssumption DEF StreamInv, StreamOf, Yielded
<1>4. WalkInv
  BY DEF WalkInv, WalkOf
<1>5. StoreSound
  BY DEF StoreSound, Yielded
<1> QED
  BY <1>1, <1>2, <1>3, <1>4, <1>5 DEF ReductionInv

LEMMA ReductionStepInv == ReductionInv /\ [ReductionNext]_vars => ReductionInv'
<1> SUFFICES ASSUME ReductionInv, [ReductionNext]_vars PROVE ReductionInv'
  OBVIOUS
<1>1. CASE Others
  <2>1. running = Nobody /\ UNCHANGED storeVars
    BY <1>1 DEF Others
  <2>2. ASSUME NEW n \in Names, NEW op \in Ops, Create(n, op), UNCHANGED walkVars
        PROVE  ReductionInv'
    BY <2>1, <2>2, CreateReductionInv
  <2>3. ASSUME NEW b \in Blocks, Update(b), UNCHANGED walkVars PROVE ReductionInv'
    BY <2>1, <2>3, UpdateReductionInv
  <2>4. ASSUME NEW b \in Blocks, Destroy(b), Tear({b}) PROVE ReductionInv'
    BY <2>1, <2>4, DestroyReductionInv
  <2>5. CASE DestroyAll /\ Tear(InTable)
    BY <2>1, <2>5, DestroyAllReductionInv
  <2> QED
    BY <1>1, <2>2, <2>3, <2>4, <2>5 DEF Others
<1>2. ASSUME NEW u \in Ults, ReduceAll(u) PROVE ReductionInv'
  BY <1>2, ReduceAllInv
<1>3. ASSUME NEW u \in Ults, NEW b \in Blocks, Reduce(u, b) PROVE ReductionInv'
  BY <1>3, ReduceInv
<1>4. ASSUME NEW u \in Ults, Visit(u) PROVE ReductionInv'
  BY <1>4, VisitUnknownInv, VisitIdleInv, VisitLoadInv DEF Visit
<1>5. ASSUME NEW u \in Ults, Remote(u) PROVE ReductionInv'
  BY <1>5, RemoteInv
<1>6. ASSUME NEW u \in Ults, Advance(u) PROVE ReductionInv'
  BY <1>6, AdvanceInv
<1>7. CASE UNCHANGED vars
  <2>1. UNCHANGED <<table, metric, created, left, listing, num_metrics, up, store, kept>>
    BY <1>7 DEF vars, registryVars, storeVars
  <2>2. UNCHANGED <<running, at, el, tmp, job, code, seen, due, done, torn>>
    BY <1>7 DEF vars, walkVars
  <2>3. RegistryInv' /\ ReductionTypeOK'
    <3>1. UNCHANGED registryVars
      BY <1>7 DEF vars
    <3>2. RegistryInv'
      BY <3>1, RegistryStepInv DEF ReductionInv
    <3> QED
      BY <2>1, <2>2, <3>2 DEF ReductionInv, ReductionTypeOK, RegistryInv
  <2>4. StreamInv' /\ WalkInv'
    BY <2>1, <2>2, Frame DEF ReductionInv, StreamInv, WalkInv
  <2>5. StoreSound'
    BY <2>1, <2>2 DEF ReductionInv, StoreSound, Covers
  <2> QED
    BY <2>3, <2>4, <2>5 DEF ReductionInv
<1> QED
  BY <1>1, <1>2, <1>3, <1>4, <1>5, <1>6, <1>7 DEF ReductionNext

(* The invariant of the reductions: the registry is consistent, a walk misses
   nothing that is ahead of it, the store holds values computed from samples
   their metrics have had (symbiomon_provider_metric_reduce,
   symbiomon_provider_reduce_all_metrics). *)
THEOREM ReductionInvHolds == ReductionSpec => []ReductionInv
<1>1. ReductionInit => ReductionInv
  BY ReductionInitInv
<1>2. ReductionInv /\ [ReductionNext]_vars => ReductionInv'
  BY ReductionStepInv
<1> QED
  BY <1>1, <1>2, PTL DEF ReductionSpec

(* HASH_ITER in reduce_all meets a freed metric only if its next one was
   destroyed during a remote call. *)
THEOREM WalkSafeHolds == ReductionSpec => []WalkSafe
<1>1. ReductionInv => WalkSafe
  BY DEF ReductionInv, WalkInv, WalkOf, WalkSafe
<1> QED
  BY <1>1, ReductionInvHolds, PTL

(* A walk keeps account of what it has reduced and what lies ahead. *)
THEOREM WalkInvHolds == ReductionSpec => []WalkInv
<1>1. ReductionInv => WalkInv
  BY DEF ReductionInv
<1> QED
  BY <1>1, ReductionInvHolds, PTL

-----------------------------------------------------------------------------
(* What a step leaves of a ULT that does not make it. *)
LEMMA OthersFrame ==
  ASSUME ReductionInv, Others \/ UNCHANGED vars
  PROVE  /\ UNCHANGED <<store, kept, at, tmp, job, code, seen, done>>
         /\ \A v \in Ults : at[v] = "idle" => due'[v] = due[v]
         /\ torn \subseteq torn'
<1>1. CASE UNCHANGED vars
  BY <1>1 DEF vars, storeVars, walkVars
<1>2. CASE Others
  BY <1>2 DEF Others, Tear, storeVars, walkVars, ReductionInv, ReductionTypeOK
<1> QED
  BY <1>1, <1>2

LEMMA StepCases ==
  ASSUME [ReductionNext]_vars
  PROVE  (Others \/ UNCHANGED vars) \/ \E u \in Ults : Walker(u)
  BY DEF ReductionNext, Walker, Visit, Remote

(* A reduction that ends or begins, or goes on to another metric. *)
LEMMA NotYielded ==
  ASSUME ReductionInv, NEW u \in Ults, Walker(u), ~VisitLoad(u), ~Remote(u)
  PROVE  /\ at'[u] \notin Yielded /\ at[u] # "put"
         /\ UNCHANGED <<store, kept>>
<1>1. at \in [Ults -> {"idle", "visit"} \cup Yielded]
  BY DEF ReductionInv, ReductionTypeOK
<1>2. CASE ReduceAll(u) \/ \E b \in Blocks : Reduce(u, b)
  BY <1>1, <1>2 DEF ReduceAll, Reduce, Begin, Yielded, storeVars
<1>3. CASE VisitUnknown(u) \/ VisitIdle(u)
  BY <1>1, <1>3 DEF VisitUnknown, VisitIdle, Proceed, Return, Continue, Yielded, storeVars
<1>4. CASE Advance(u)
  BY <1>1, <1>4 DEF Advance, Proceed, Return, Continue, Yielded, storeVars
<1> QED
  BY <1>2, <1>3, <1>4 DEF Walker, Remote

LEMMA NotBehindStep ==
  ReductionInv /\ NotBehindStart /\ [ReductionNext]_vars => NotBehindStart'
<1> SUFFICES ASSUME ReductionInv, NotBehindStart, [ReductionNext]_vars,
                    NEW v \in Ults, at'[v] \in Yielded, seen'[v] # None,
                    seen'[v].gen = job'[v].val.gen
             PROVE  seen'[v].upto <= job'[v].val.upto
  BY DEF NotBehindStart
<1>1. ASSUME at[v] \in Yielded, seen'[v] = seen[v], job'[v] = job[v]
      PROVE  seen'[v].upto <= job'[v].val.upto
  BY <1>1 DEF NotBehindStart
<1>2. CASE Others \/ UNCHANGED vars
  BY <1>1, <1>2, OthersFrame
<1>3. ASSUME NEW u \in Ults, Walker(u) PROVE seen'[v].upto <= job'[v].val.upto
  <2>1. CASE u # v
    BY <1>1, <1>3, <2>1, WalkerFrame DEF ReductionInv
  <2>2. CASE u = v /\ Remote(v)
    BY <1>1, <2>2, RemoteStep
  <2>3. CASE u = v /\ VisitLoad(v)
    <3>1. PICK b \in Blocks :
            /\ job' = [job EXCEPT ![v] =
                 [key |-> <<metric[el[v]].name, metric[b].op>>,
                  val |-> [gen |-> metric[el[v]].gen,
                           upto |-> Covered(metric[b].op, metric[el[v]].buffer_index)]]]
            /\ seen' = [seen EXCEPT ![v] = store[<<metric[el[v]].name, metric[b].op>>]]
            /\ el[v] \in Blocks
            /\ metric[b].op \in Ops /\ metric[el[v]].name \in Names
      BY <2>3, VisitLoadFacts
    <3> DEFINE key == <<metric[el[v]].name, metric[b].op>>
    <3>2. /\ seen'[v] = store[key]
          /\ job'[v].val = [gen |-> metric[el[v]].gen,
                            upto |-> Covered(metric[b].op, metric[el[v]].buffer_index)]
      BY <3>1 DEF ReductionInv, ReductionTypeOK
    <3>3. key \in Keys /\ key[2] = metric[b].op
      BY <3>1 DEF Keys
    <3>4. Covers(key, store[key])
      <4> HIDE DEF key
      <4> QED
        BY <3>2, <3>3 DEF ReductionInv, StoreSound
    <3> HIDE DEF key
    <3>5. /\ metric[b].op = "STORE" => store[key].upto <= 1
          /\ store[key].upto <= metric[el[v]].buffer_index
      BY <3>1, <3>2, <3>3, <3>4 DEF Covers
    <3> QED
      BY <3>2, <3>5 DEF Covered
  <2>4. CASE u = v /\ ~Remote(v) /\ ~VisitLoad(v)
    BY <1>3, <2>4, NotYielded
  <2> QED
    BY <2>1, <2>2, <2>3, <2>4
<1> QED
  BY <1>2, <1>3, StepCases

(* A reduction never puts a value older than the one it found
   (symbiomon_provider_metric_reduce). *)
THEOREM NotBehindStartHolds == ReductionSpec => []NotBehindStart
<1>1. ReductionInit => NotBehindStart
  BY DEF ReductionInit, NoReduction, NotBehindStart, Yielded
<1>2. ReductionInv /\ NotBehindStart /\ [ReductionNext]_vars => NotBehindStart'
  BY NotBehindStep
<1> QED
  BY <1>1, <1>2, ReductionInvHolds, PTL DEF ReductionSpec

-----------------------------------------------------------------------------
LEMMA AbsentStep ==
  ReductionInv /\ AbsentOnlyBetween /\ [ReductionNext]_vars => AbsentOnlyBetween'
<1> SUFFICES ASSUME ReductionInv, AbsentOnlyBetween, [ReductionNext]_vars,
                    NEW k \in kept', store'[k] = None
             PROVE  \E v \in Ults : at'[v] = "put" /\ job'[v].key = k
  BY DEF AbsentOnlyBetween
<1> DEFINE Goal == \E v \in Ults : at'[v] = "put" /\ job'[v].key = k
<1>1. CASE Others \/ UNCHANGED vars
  BY <1>1, OthersFrame DEF AbsentOnlyBetween
<1>2. ASSUME NEW u \in Ults, Walker(u) PROVE Goal
  <2>1. ASSUME NEW v \in Ults, v # u, at[v] = "put", job[v].key = k PROVE Goal
    BY <1>2, <2>1, WalkerFrame DEF ReductionInv
  <2>2. ASSUME Remote(u)
        PROVE  /\ job' = job /\ job[u].key \in Keys /\ job[u].val # None
               /\ at'[u] \in {"put", "stored"} /\ (Erase(u) => at'[u] = "put")
               /\ store \in [Keys -> Value \cup {None}]
    <3>1. job' = job /\ job[u].key \in Keys /\ job[u].val # None
      BY <2>2, RemoteStep, NoneAssumption DEF Value
    <3>2. at'[u] \in {"put", "stored"} /\ (Erase(u) => at'[u] = "put")
      BY <2>2, RemoteStep DEF ReductionInv, ReductionTypeOK, Erase
    <3> QED
      BY <3>1, <3>2 DEF ReductionInv, ReductionTypeOK
  <2>3. CASE Erase(u)
    <3>1. at[u] = "erase" /\ at'[u] = "put" /\ job' = job /\ kept' = kept
      BY <2>2, <2>3 DEF Erase, Remote
    <3>2. CASE k = job[u].key
      BY <3>1, <3>2
    <3>3. CASE k # job[u].key
      <4>1. store[k] = None
        BY <2>2, <2>3, <3>3 DEF Erase, Remote, AbsentOnlyBetween
      <4>2. PICK v \in Ults : at[v] = "put" /\ job[v].key = k
        BY <3>1, <4>1 DEF AbsentOnlyBetween
      <4> QED
        BY <2>1, <3>1, <4>2
    <3> QED
      BY <3>2, <3>3
  <2>4. CASE EraseLost(u)
    <3>1. at[u] = "erase" /\ kept' = kept /\ store' = store
      BY <2>4 DEF EraseLost, storeVars
    <3>2. PICK v \in Ults : at[v] = "put" /\ job[v].key = k
      BY <3>1 DEF AbsentOnlyBetween
    <3> QED
      BY <2>1, <3>1, <3>2
  <2>5. CASE Put(u) \/ PutLost(u)
    <3>0. job[u].key \in Keys /\ job[u].val # None /\ store \in [Keys -> Value \cup {None}]
      BY <2>2, <2>5 DEF Remote
    <3>1. k # job[u].key /\ k \in kept /\ store'[k] = store[k]
      <4>1. CASE Put(u)
        <5>1. /\ store' = [store EXCEPT ![job[u].key] = job[u].val]
              /\ kept' = kept \cup {job[u].key}
          BY <4>1 DEF Put
        <5>2. store'[job[u].key] = job[u].val
          BY <3>0, <5>1
        <5>3. k # job[u].key
          BY <3>0, <5>2
        <5> QED
          BY <3>0, <5>1, <5>3
      <4>2. CASE PutLost(u)
        BY <4>2 DEF PutLost
      <4> QED
        BY <2>5, <4>1, <4>2
    <3>2. PICK v \in Ults : at[v] = "put" /\ job[v].key = k
      BY <3>1 DEF AbsentOnlyBetween
    <3> QED
      BY <2>1, <3>1, <3>2
  <2>6. CASE VisitLoad(u) \/ (~Remote(u) /\ ~VisitLoad(u))
    <3>1. at[u] # "put" /\ kept' = kept /\ store' = store
      BY <1>2, <2>6, NotYielded DEF VisitLoad, storeVars
    <3>2. PICK v \in Ults : at[v] = "put" /\ job[v].key = k
      BY <3>1 DEF AbsentOnlyBetween
    <3> QED
      BY <2>1, <3>1, <3>2
  <2> QED
    BY <2>3, <2>4, <2>5, <2>6 DEF Remote
<1> QED
  BY <1>1, <1>2, StepCases

(* A value once written is missing only between the two remote calls of a
   reduction of its metric (symbiomon_provider_metric_reduce). *)
THEOREM AbsentOnlyBetweenHolds == ReductionSpec => []AbsentOnlyBetween
<1>1. ReductionInit => AbsentOnlyBetween
  BY DEF ReductionInit, NoReduction, AbsentOnlyBetween
<1>2. ReductionInv /\ AbsentOnlyBetween /\ [ReductionNext]_vars => AbsentOnlyBetween'
  BY AbsentStep
<1> QED
  BY <1>1, <1>2, ReductionInvHolds, PTL DEF ReductionSpec

-----------------------------------------------------------------------------
LEMMA CompleteStep ==
  ReductionInv /\ WalkComplete /\ [ReductionNext]_vars => WalkComplete'
<1> SUFFICES ASSUME ReductionInv, WalkComplete, [ReductionNext]_vars,
                    NEW v \in Ults, code'[v] = "SUCCESS", v \notin torn'
             PROVE  due'[v] \subseteq done'[v]
  BY DEF WalkComplete
<1>1. at[v] # "idle" => code[v] = "none"
  BY DEF ReductionInv, StreamInv, StreamOf
<1>2. CASE Others \/ UNCHANGED vars
  BY <1>1, <1>2, OthersFrame DEF WalkComplete
<1>3. ASSUME NEW u \in Ults, Walker(u) PROVE due'[v] \subseteq done'[v]
  <2>1. CASE u # v
    BY <1>3, <2>1, WalkerFrame DEF ReductionInv, WalkComplete
  <2>2. ASSUME u = v, at[v] # "idle", Proceed(v, Now(v)), due' = due, torn' = torn
        PROVE  due'[v] \subseteq done'[v]
    <3>1. done'[v] = done[v] \cup {Now(v)}
      BY <2>2 DEF Proceed, ReductionInv, ReductionTypeOK
    <3>2. tmp[v] = Null
      BY <1>1, <2>2 DEF Proceed, Continue
    <3>3. Gens(From(tmp[v])) = {}
      BY <3>2, FromNull DEF Gens, ReductionInv
    <3>4. due[v] \subseteq done[v] \cup {Now(v)}
      BY <2>2, <3>3, AheadOf
    <3> QED
      BY <2>2, <3>1, <3>4
  <2>3. CASE u = v /\ VisitIdle(v)
    BY <2>2, <2>3 DEF VisitIdle, Now
  <2>4. CASE u = v /\ Advance(v)
    BY <2>2, <2>4 DEF Advance, Now
  <2>5. CASE u = v /\ Remote(v)
    BY <1>1, <2>5, RemoteStep DEF Yielded
  <2>6. CASE u = v /\ VisitLoad(v)
    BY <1>1, <2>6 DEF VisitLoad
  <2>7. CASE u = v /\ (ReduceAll(v) \/ VisitUnknown(v) \/ \E b \in Blocks : Reduce(v, b))
    BY <2>7 DEF ReduceAll, Reduce, Begin, VisitUnknown, Return, ReductionInv, ReductionTypeOK
  <2> QED
    BY <1>3, <2>1, <2>3, <2>4, <2>5, <2>6, <2>7 DEF Walker, Remote
<1> QED
  BY <1>2, <1>3, StepCases

(* reduce_all that returns SUCCESS has reduced every metric registered all
   along, unless its next metric was destroyed under it. *)
THEOREM WalkCompleteHolds == ReductionSpec => []WalkComplete
<1>1. ReductionInit => WalkComplete
  BY DEF ReductionInit, NoReduction, WalkComplete
<1>2. ReductionInv /\ WalkComplete /\ [ReductionNext]_vars => WalkComplete'
  BY CompleteStep
<1> QED
  BY <1>1, <1>2, ReductionInvHolds, PTL DEF ReductionSpec
=============================================================================
