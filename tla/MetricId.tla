------------------------------ MODULE MetricId ------------------------------
(***************************************************************************)
(* The identifier of a metric (symbiomon-common.h): the djb2 hashes of its *)
(* namespace, name and tags, combined by exclusive or.  Providers create   *)
(* and find metrics by it and nothing else; clients compute it from the    *)
(* same strings.                                                           *)
(*                                                                         *)
(* A string is a sequence of signed chars, an identifier the set of the   *)
(* places of its one bits.  Width is that of uint32_t in the code, and     *)
(* less in a run, since TLC's integers have 32 bits.                       *)
(***************************************************************************)
EXTENDS Integers, FiniteSets, SequencesExt

CONSTANTS
  Strings,     \* namespaces, names and tags
  Taglists,    \* lists of tags
  MaxRegistered,  \* bound: metrics in the provider
  Width        \* bits of an identifier

ASSUME StringsAssumption == Strings \subseteq Seq((-128 .. 127) \ {0}) /\ Taglists \subseteq Seq(Strings)
ASSUME WidthAssumption == Width \in 13 .. 32

VARIABLES
  metrics,  \* the registered metrics
  asked,    \* the strings of the last create or lookup
  answer    \* the metrics it gave: none or one

idVars == <<metrics, asked, answer>>

(* symbiomon_hash: hash * 33 + c for each character, from 5381. *)
Hash(str) == FoldLeft(LAMBDA hash, c : (hash * 33 + c) % 2^Width, 5381, str)

(* The one bits of a word, and the exclusive or of two words. *)
Bits(word) == {i \in 0 .. Width - 1 : (word \div 2^i) % 2 = 1}
Xor(v, w) == (v \ w) \cup (w \ v)

Id_Ordered(ns, name, tags) ==   \* mutant: the running identifier shifted before each tag
  FoldLeft(LAMBDA id, tag : Xor({i + 1 : i \in id} \cap (0 .. Width - 1), Bits(Hash(tag))),
           Xor(Bits(Hash(ns)), Bits(Hash(name))), tags)

(* symbiomon_id_from_string_identifiers. *)
Id(ns, name, tags) ==
  FoldLeft(LAMBDA id, tag : Xor(id, Bits(Hash(tag))), Xor(Bits(Hash(ns)), Bits(Hash(name))), tags)

(* What a metric may be called, with the identifier it then has. *)
Descriptor ==
  {[ns |-> ns, name |-> name, tags |-> tags, id |-> Id(ns, name, tags)] :
     ns \in Strings, name \in Strings, tags \in Taglists}

(* find_metric: HASH_FIND compares identifiers. *)
Found(d) == {m \in metrics : m.id = d.id}

IdInit ==
  /\ metrics = {}
  /\ asked \in {d \in Descriptor : d.ns = d.name /\ d.tags = << >>}
  /\ answer = {}

-----------------------------------------------------------------------------
(* symbiomon_provider_metric_create: a metric with this identifier is given
   back as METRIC_EXISTS, otherwise a new one comes into the table. *)
CreateMetric(d) ==
  /\ asked' = d
  /\ \/ /\ Found(d) # {}
        /\ answer' = Found(d)
        /\ UNCHANGED metrics
     \/ /\ Found(d) = {}
        /\ Cardinality(metrics) < MaxRegistered
        /\ metrics' = metrics \cup {d}
        /\ answer' = {d}

(* symbiomon_remote_metric_get_id, and a fetch with the identifier it gave. *)
Lookup(d) ==
  /\ asked' = d
  /\ answer' = Found(d)
  /\ UNCHANGED metrics

IdNext == \E d \in Descriptor : CreateMetric(d) \/ Lookup(d)

IdSpec == IdInit /\ [][IdNext]_idVars

-----------------------------------------------------------------------------
(* Every variable has its type. *)
IdTypeOK == metrics \subseteq Descriptor /\ asked \in Descriptor /\ answer \subseteq metrics

(* The same tags, each as often. *)
SameTags(s, t) == \E p \in Bijection(DOMAIN s, DOMAIN t) : \A i \in DOMAIN s : s[i] = t[p[i]]

(* One metric has the same strings as another, its tags in any order. *)
Same(d, e) == d.ns = e.ns /\ d.name = e.name /\ SameTags(d.tags, e.tags)

(* The tags may be given in any order: create makes no second metric and a
   client finds the one there is (symbiomon-common.h:103). *)
AnyTagOrder ==
  /\ \A d, e \in metrics : Same(d, e) => d = e
  /\ \A d \in metrics : Same(d, asked) => answer = {d}

(* An identifier finds one metric at most (provider.c:229, 711-719). *)
OneAnswer == \A d, e \in metrics : d.id = e.id => d = e

(* Two strings of one length that differ in one place only. *)
OneApart(s, t) ==
  Len(s) = Len(t) /\ Cardinality({i \in DOMAIN s : s[i] # t[i]}) = 1

(* The hash keeps such strings apart, since 33 has an inverse modulo a power of
   two: names that are numbered in a digit, under one namespace and the same tags,
   are not taken for each other (symbiomon-common.h:87-89). *)
NumberedApart ==
  \A d \in metrics :
    /\ d.ns = asked.ns /\ SameTags(d.tags, asked.tags) /\ OneApart(d.name, asked.name)
    => d \notin answer

(* The four together: what identifiers tell apart, and what they do not.     *)
IdInv == IdTypeOK /\ AnyTagOrder /\ OneAnswer /\ NumberedApart
=============================================================================
