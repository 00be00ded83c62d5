---------------------------- MODULE OrderedTable ----------------------------
(***************************************************************************)
(* What provider.c relies on when it keeps its metrics in a uthash table:  *)
(* at most one element per key, a lookup that finds exactly the element    *)
(* added under a key, and an iteration in the order of addition.  There    *)
(* are no buckets, links or counts here: HashTable implements this.        *)
(***************************************************************************)
EXTENDS Integers, SequencesExt

CONSTANTS
  Elements,   \* the structures that can be in the table
  NoElem,       \* no element
  Key,        \* [Elements -> keys]
  Rank        \* [Elements -> Int]: the order a comparison function defines

VARIABLE order   \* the elements in the table, in application order

Members == ToSet(order)

(* find_metric: the element with this key, or none.                        *)
Lookup(k) ==
  IF \E e \in Members : Key[e] = k THEN CHOOSE e \in Members : Key[e] = k ELSE NoElem

Without(e) == RemoveFirst(order, e)

(* The new element goes before the first one that is greater.              *)
Placed(list, e) ==
  LET after == {i \in DOMAIN list : Rank[list[i]] > Rank[e]}
  IN IF after = {} THEN Append(list, e)
     ELSE InsertAt(list, CHOOSE i \in after : \A j \in after : i <= j, e)

OTInit == order = << >>

(* add_metric, and HASH_ADD_INORDER. *)
OTAdd == \E e \in Elements :
  /\ Lookup(Key[e]) = NoElem
  /\ order' \in {Append(order, e), Placed(order, e)}

(* remove_metric *)
OTRemove == \E e \in Members : order' = Without(e)

(* HASH_REPLACE *)
OTReplace == \E e \in Elements \ Members :
  order' = Append(Without(Lookup(Key[e])), e)

(* remove_all_metrics, and HASH_CLEAR. *)
OTEmpty == order' = << >>

(* HASH_SRT: by rank, equal elements in the order they had. *)
Place(e) == CHOOSE i \in DOMAIN order : order[i] = e
Before(d, e) == Rank[d] < Rank[e] \/ (Rank[d] = Rank[e] /\ Place(d) < Place(e))

OTSort ==
  /\ Len(order') = Len(order) /\ ToSet(order') = Members
  /\ \A i, j \in DOMAIN order : i < j => Before(order'[i], order'[j])

OTNext == OTAdd \/ OTRemove \/ OTReplace \/ OTEmpty \/ OTSort

OTSpec == OTInit /\ [][OTNext]_order
=============================================================================
