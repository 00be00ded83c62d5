------------------------------ MODULE HashTable ------------------------------
(***************************************************************************)
(* The hash table of uthash.h, in which a provider keeps its metrics: a    *)
(* doubly linked list of all elements in the order they were added, laid   *)
(* over buckets whose chains are doubly linked too, with the bucket array  *)
(* doubled when a chain grows long.  The links are those the macros write; *)
(* running out of memory ends the process (uthash_fatal) and is left out.  *)
(***************************************************************************)
EXTENDS Integers, FiniteSets, SequencesExt

CONSTANTS
  Elements,   \* the structures that can be in the table
  NoElem,       \* the null pointer
  Key,        \* [Elements -> keys]
  Hash,       \* [keys -> Nat]: HASH_FCN
  Rank,       \* [Elements -> Int]: what a comparison function orders by
  Initial,    \* HASH_INITIAL_NUM_BUCKETS, a power of two
  Threshold,  \* HASH_BKT_CAPACITY_THRESH
  MaxBuckets  \* bound: no addition grows the table beyond this

ASSUME HashTableAssumption ==
  /\ IsFiniteSet(Elements) /\ NoElem \notin Elements
  /\ DOMAIN Key = Elements /\ \A e \in Elements : Hash[Key[e]] \in Nat
  /\ Rank \in [Elements -> Int]
  /\ Threshold \in Nat \ {0} /\ Initial \in {2^i : i \in 0..5}

VARIABLES
  head,   \* the first element in application order, NoElem for an empty table
  tbl,    \* the UT_hash_table the head points to
  hh      \* the UT_hash_handle of every element; the macros write
          \* all four before they read one of an element outside the table, so
          \* a removed element's are forgotten

htVars == <<head, tbl, hh>>

NoLinks == [prev |-> NoElem, next |-> NoElem, hhPrev |-> NoElem, hhNext |-> NoElem]
EmptyBucket == [hhHead |-> NoElem, count |-> 0, mult |-> 0]
Buckets(n) == [b \in 0..n - 1 |-> EmptyBucket]
Num(t) == Cardinality(DOMAIN t.buckets)
FreedTable == [tail |-> NoElem, items |-> 0, ideal |-> 0, ineff |-> 0, noexpand |-> FALSE,
               buckets |-> Buckets(0)]

\* mutant: the address is taken modulo the old number of buckets
ToBucket_Halved(e, n) == Hash[Key[e]] % (IF n > Initial THEN n \div 2 ELSE n)

(* HASH_TO_BKT: hashv & (num_buckets - 1). *)
ToBucket(e, n) == Hash[Key[e]] % n

(* The elements met from first on along a link; one more than there are    *)
(* when the links form a ring.                                             *)
Walk(first, link) ==
  LET at[k \in 0..Cardinality(Elements)] ==
        IF k = 0 THEN first
        ELSE LET e == at[k - 1] IN IF e = NoElem THEN NoElem ELSE link[e]
      met == {k \in 0..Cardinality(Elements) : at[k] # NoElem}
  IN [i \in 1..Cardinality(met) |-> at[i - 1]]

OrderLink(links) == [e \in Elements |-> links[e].next]
ChainLink(links) == [e \in Elements |-> links[e].hhNext]

Chain(b) == Walk(tbl.buckets[b].hhHead, ChainLink(hh))
AppOrder == Walk(head, OrderLink(hh))

(***************************************************************************)
(* HASH_FIND: the first element in the key's bucket with its hash and key. *)
(***************************************************************************)
Find(k) ==
  LET chain == Chain(Hash[k] % Num(tbl))
      hits == {i \in DOMAIN chain : Key[chain[i]] = k}
  IN IF head = NoElem \/ hits = {} THEN NoElem
     ELSE chain[CHOOSE i \in hits : \A j \in hits : i <= j]

\* mutant: the old front is not told who precedes it
Push_OneWay(links, e, first) ==
  [links EXCEPT ![e].hhPrev = NoElem, ![e].hhNext = first]

(* A chain takes e at its front.                                           *)
Push(links, e, first) ==
  [x \in Elements |->
    IF x = e THEN [links[x] EXCEPT !.hhPrev = NoElem, !.hhNext = first]
    ELSE IF x = first THEN [links[x] EXCEPT !.hhPrev = e] ELSE links[x]]

\* mutant: expand_mult of a crowded bucket is never raised
Rehash_Flat(s, e, n, ideal) ==
  LET b == ToBucket(e, n)
      old == s.buckets[b]
  IN [buckets  |-> [s.buckets EXCEPT ![b] = [hhHead |-> e, count |-> old.count + 1, mult |-> 0]],
      links    |-> Push(s.links, e, old.hhHead),
      nonideal |-> IF old.count + 1 > ideal THEN s.nonideal + 1 ELSE s.nonideal]

(* One element of HASH_EXPAND_BUCKETS' loop; ideal is ceil(items/buckets). *)
Rehash(s, e, n, ideal) ==
  LET b == ToBucket(e, n)
      old == s.buckets[b]
      over == old.count + 1 > ideal
      more == over /\ old.count + 1 > old.mult * ideal
  IN [buckets  |-> [s.buckets EXCEPT ![b] =
                     [hhHead |-> e, count |-> old.count + 1,
                      mult |-> IF more THEN old.mult + 1 ELSE old.mult]],
      links    |-> Push(s.links, e, old.hhHead),
      nonideal |-> IF over THEN s.nonideal + 1 ELSE s.nonideal]

(***************************************************************************)
(* HASH_EXPAND_BUCKETS: twice the buckets; the chains are moved one after  *)
(* the other, each front to back.  Two expansions in a row after which most*)
(* elements lie beyond the ideal length are the last ones.                 *)
(***************************************************************************)
Move(s, chain, n, ideal) == FoldLeft(LAMBDA r, e : Rehash(r, e, n, ideal), s, chain)

Transfer(t, links, n, ideal) ==
  FoldLeft(LAMBDA s, chain : Move(s, chain, n, ideal),
           [buckets |-> Buckets(n), links |-> links, nonideal |-> 0],
           [i \in 1..Num(t) |-> Walk(t.buckets[i - 1].hhHead, ChainLink(links))])

Expand(t, links) ==
  LET n == 2 * Num(t)
      ideal == (t.items + n - 1) \div n
      moved == Transfer(t, links, n, ideal)
      ineff == IF moved.nonideal > t.items \div 2 THEN t.ineff + 1 ELSE 0
  IN [tbl |-> [t EXCEPT !.buckets = moved.buckets, !.ideal = ideal, !.ineff = ineff,
                        !.noexpand = @ \/ ineff > 1],
      links |-> moved.links]

(* HASH_ADD_TO_TABLE and HASH_ADD_TO_BKT, with the expansion they trigger. *)
AddToTable(t, links, e) ==
  LET b == ToBucket(e, Num(t))
      old == t.buckets[b]
      added == [t EXCEPT !.items = @ + 1,
                         !.buckets[b].count = @ + 1, !.buckets[b].hhHead = e]
      pushed == Push(links, e, old.hhHead)
  IN IF old.count + 1 >= (old.mult + 1) * Threshold /\ ~t.noexpand
     THEN Expand(added, pushed)
     ELSE [tbl |-> added, links |-> pushed]

(* HASH_APPEND_LIST *)
AppendList(t, links, e) ==
  [tbl |-> [t EXCEPT !.tail = e],
   links |-> [links EXCEPT ![t.tail].next = e, ![e].prev = t.tail, ![e].next = NoElem]]

(* HASH_MAKE_TABLE, for the first element, whose links are NULL.           *)
MakeTable(links, e) ==
  [tbl |-> [FreedTable EXCEPT !.tail = e, !.buckets = Buckets(Initial)],
   links |-> [links EXCEPT ![e].prev = NoElem, ![e].next = NoElem]]

Store(first, s) ==
  /\ Num(s.tbl) <= MaxBuckets
  /\ head' = first /\ tbl' = s.tbl /\ hh' = s.links

(***************************************************************************)
(* HASH_ADD_KEYPTR, called by add_metric when find_metric found nothing.   *)
(***************************************************************************)
Added(first, t, links, e) ==
  LET s == IF first = NoElem THEN MakeTable(links, e) ELSE AppendList(t, links, e)
  IN AddToTable(s.tbl, s.links, e)

Add(e) ==
  /\ Find(Key[e]) = NoElem
  /\ Store(IF head = NoElem THEN e ELSE head, Added(head, tbl, hh, e))

(***************************************************************************)
(* HASH_ADD_INORDER: before the first element the comparison calls greater.*)
(***************************************************************************)
InsertBefore(t, links, at, e) ==
  LET before == links[at].prev
  IN [tbl |-> t,
      links |-> [x \in Elements |->
        IF x = e THEN [links[x] EXCEPT !.next = at, !.prev = before]
        ELSE IF x = at THEN [links[x] EXCEPT !.prev = e]
        ELSE IF x = before THEN [links[x] EXCEPT !.next = e]
        ELSE links[x]]]

AddInOrder(e) ==
  LET list == AppOrder
      greater == {i \in DOMAIN list : Rank[list[i]] > Rank[e]}
  IN /\ Find(Key[e]) = NoElem
     /\ greater # {}
     /\ LET at == list[CHOOSE i \in greater : \A j \in greater : i <= j]
            s == InsertBefore(tbl, hh, at, e)
        IN Store(IF head = at THEN e ELSE head, AddToTable(s.tbl, s.links, e))

(***************************************************************************)
(* HASH_DELETE: the last element takes the table with it; otherwise both   *)
(* its lists are closed over it.                                           *)
(***************************************************************************)
CloseOrder(links, e) ==
  [x \in Elements |->
    [links[x] EXCEPT
      !.next = IF x = links[e].prev THEN links[e].next ELSE @,
      !.prev = IF x = links[e].next THEN links[e].prev ELSE @]]

(* HASH_DEL_IN_BKT *)
CloseChain(links, e) ==
  [x \in Elements |->
    [links[x] EXCEPT
      !.hhNext = IF x = links[e].hhPrev THEN links[e].hhNext ELSE @,
      !.hhPrev = IF x = links[e].hhNext THEN links[e].hhPrev ELSE @]]

Forget(links, gone) == [x \in Elements |-> IF x \in gone THEN NoLinks ELSE links[x]]

Deleted(s, e) ==
  LET b == ToBucket(e, Num(s.tbl))
      gone == s.links[e]
  IN IF gone.prev = NoElem /\ gone.next = NoElem
     THEN [head |-> NoElem, tbl |-> FreedTable, links |-> Forget(s.links, {e})]
     ELSE [head |-> IF gone.prev = NoElem THEN gone.next ELSE s.head,
           tbl |-> [s.tbl EXCEPT
                     !.tail = IF @ = e THEN gone.prev ELSE @,
                     !.buckets[b].count = @ - 1,
                     !.buckets[b].hhHead = IF @ = e THEN gone.hhNext ELSE @,
                     !.items = @ - 1],
           links |-> Forget(CloseChain(CloseOrder(s.links, e), e), {e})]

Here == [head |-> head, tbl |-> tbl, links |-> hh]

Delete(e) == LET s == Deleted(Here, e) IN Store(s.head, s)

(***************************************************************************)
(* HASH_REPLACE: the element with the key goes, the new one is appended.   *)
(***************************************************************************)
Replace(e) ==
  LET old == Find(Key[e])
      s == IF old = NoElem THEN Here ELSE Deleted(Here, old)
  IN Store(IF s.head = NoElem THEN e ELSE s.head,
           Added(s.head, s.tbl, s.links, e))

(***************************************************************************)
(* remove_all_metrics: HASH_ITER, which reads the next element before its  *)
(* body deletes this one.  HASH_CLEAR frees the table and leaves the links.*)
(***************************************************************************)
DeleteAll ==
  LET upTo[k \in 0..Cardinality(Elements)] ==
        IF k = 0 THEN [s |-> Here, el |-> head]
        ELSE LET u == upTo[k - 1]
             IN IF u.el = NoElem THEN u
                ELSE [s |-> Deleted(u.s, u.el), el |-> u.s.links[u.el].next]
      end == upTo[Cardinality(Elements)].s
  IN head # NoElem /\ Store(end.head, end)

Clear == head # NoElem /\ Store(NoElem, [tbl |-> FreedTable, links |-> Forget(hh, Elements)])

\* mutant: of two equal elements the later one goes first
Merge_Unstable(p, q) ==
  LET after[k \in 0..Len(p) + Len(q)] ==
        IF k = 0 THEN [list |-> << >>, i |-> 1, j |-> 1]
        ELSE LET m == after[k - 1]
             IN IF m.i <= Len(p) /\ (m.j > Len(q) \/ Rank[p[m.i]] < Rank[q[m.j]])
                THEN [m EXCEPT !.list = Append(@, p[m.i]), !.i = @ + 1]
                ELSE [m EXCEPT !.list = Append(@, q[m.j]), !.j = @ + 1]
  IN after[Len(p) + Len(q)].list

(***************************************************************************)
(* HASH_SRT: merge sort from the bottom.  A round merges neighbouring runs *)
(* of a size, doubled each time, until a round had one merge only.         *)
(***************************************************************************)
Merge(p, q) ==
  LET after[k \in 0..Len(p) + Len(q)] ==
        IF k = 0 THEN [list |-> << >>, i |-> 1, j |-> 1]
        ELSE LET m == after[k - 1]
             IN IF m.i <= Len(p) /\ (m.j > Len(q) \/ Rank[p[m.i]] <= Rank[q[m.j]])
                THEN [m EXCEPT !.list = Append(@, p[m.i]), !.i = @ + 1]
                ELSE [m EXCEPT !.list = Append(@, q[m.j]), !.j = @ + 1]
  IN after[Len(p) + Len(q)].list

Run(list, before, size) ==
  SubSeq(list, before + 1, IF before + size < Len(list) THEN before + size ELSE Len(list))

Round(list, size) ==
  LET merges == (Len(list) + 2 * size - 1) \div (2 * size)
      done[m \in 0..merges] ==
        IF m = 0 THEN << >>
        ELSE LET before == 2 * size * (m - 1)
             IN done[m - 1] \o Merge(Run(list, before, size), Run(list, before + size, size))
  IN done[merges]

Sorted(list) ==
  LET after[k \in 0..Len(list)] == IF k = 0 THEN list ELSE Round(after[k - 1], 2^(k - 1))
  IN after[CHOOSE k \in 1..Len(list) : 2^k >= Len(list) /\ (k = 1 \/ 2^(k - 1) < Len(list))]

Sort ==
  LET list == Sorted(AppOrder)
      n == Len(list)
      place == [e \in ToSet(list) |-> CHOOSE i \in 1..n : list[i] = e]
  IN /\ head # NoElem
     /\ head' = list[1]
     /\ tbl' = [tbl EXCEPT !.tail = list[n]]
     /\ hh' = [e \in Elements |->
                IF e \notin ToSet(list) THEN hh[e]
                ELSE [hh[e] EXCEPT !.prev = IF place[e] = 1 THEN NoElem ELSE list[place[e] - 1],
                                   !.next = IF place[e] = n THEN NoElem ELSE list[place[e] + 1]]]

HTInit == head = NoElem /\ tbl = FreedTable /\ hh = [e \in Elements |-> NoLinks]

HTNext ==
  \/ \E e \in Elements \ ToSet(AppOrder) : Add(e) \/ AddInOrder(e) \/ Replace(e)
  \/ \E e \in ToSet(AppOrder) : Delete(e)
  \/ DeleteAll \/ Clear \/ Sort

HTSpec == HTInit /\ [][HTNext]_htVars
-----------------------------------------------------------------------------
(* The checks HASH_FSCK makes under HASH_DEBUG: in every chain and in the  *)
(* application order each element names the one before it, and the counts  *)
(* of the buckets and of the table are the lengths.                        *)
BackLinked(list, field) ==
  \A i \in DOMAIN list : hh[list[i]][field] = IF i = 1 THEN NoElem ELSE list[i - 1]

Fsck ==
  head # NoElem =>
    /\ \A b \in DOMAIN tbl.buckets :
         BackLinked(Chain(b), "hhPrev") /\ tbl.buckets[b].count = Len(Chain(b))
    /\ BackLinked(AppOrder, "prev")
    /\ tbl.items = Len(AppOrder)
    /\ tbl.items = Cardinality(UNION {{b} \X DOMAIN Chain(b) : b \in DOMAIN tbl.buckets})
    /\ tbl.tail = Last(AppOrder)

(* Whatever was added, deleted, sorted and moved, a lookup finds exactly   *)
(* the element of the application order that has the key: find_metric and  *)
(* HASH_ITER never disagree about which metrics a provider has.            *)
FindsWhatIterates ==
  \A k \in {Key[e] : e \in Elements} :
    Find(k) = IF \E e \in ToSet(AppOrder) : Key[e] = k
              THEN CHOOSE e \in ToSet(AppOrder) : Key[e] = k ELSE NoElem

(* Until expansion is given up, no chain is longer than twice the multiple *)
(* of HASH_BKT_CAPACITY_THRESH its bucket was granted, whatever was added, *)
(* deleted and moved before: "longer yet-still-bounded".  Twice, because   *)
(* an expansion tolerates chains of the ideal length it computes, which may*)
(* itself be above the threshold when many buckets had been granted more.  *)
ChainsBounded ==
  tbl.noexpand \/ \A b \in DOMAIN tbl.buckets :
    tbl.buckets[b].count <= (tbl.buckets[b].mult + 1) * (2 * Threshold)

(* The bucket table implements the ordered table provider.c relies on:     *)
(* expansion and sorting lose, repeat and reorder nothing they should not. *)
Ordered == INSTANCE OrderedTable WITH order <- AppOrder
ImplementsOrderedTable == Ordered!OTSpec
=============================================================================
