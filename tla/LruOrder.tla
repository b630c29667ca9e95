------------------------------ MODULE LruOrder ------------------------------
(***************************************************************************)
(* What LruCache.tla, the cache as it is written, and LruCacheSpec.tla,    *)
(* what it promises, share: the parameters of the class template, and the  *)
(* recency order of the cache as a binary relation on keys.  <<j, k>> is   *)
(* in the relation when j was used less recently than k.  The doubly       *)
(* linked list of LruCache.h is one way of storing such a relation; the    *)
(* relation is what the cache's users may rely on.                         *)
(***************************************************************************)
EXTENDS Naturals, FiniteSets

CONSTANTS Key,          \* TKey
          Value,        \* TValue
          NoValue,      \* mNullValue
          MaxCapacity   \* mMaxCapacity

kUnlimitedCapacity == 0

ASSUME LruAssumption == MaxCapacity \in Nat /\ NoValue \notin Value

(* The relation without the keys of gone: detachFromCache. *)
Drop(older, gone) == {p \in older : p[1] \notin gone /\ p[2] \notin gone}

(* k, one of the keys of S or a new one, becomes the youngest of all:      *)
(* attachToCache of an entry that is not (or no longer) in the list.       *)
MakeYoungest(older, S, k) == Drop(older, {k}) \cup ((S \ {k}) \X {k})

(* k is what mOldest designates when the cached keys are S. *)
IsOldest(older, S, k) == k \in S /\ \A j \in S \ {k} : <<k, j>> \in older

(* older orders the keys of S strictly, and every non-empty set of them    *)
(* has an oldest one (hence the order is total).                           *)
OrderOn(older, S) ==
  /\ older \subseteq S \X S
  /\ \A j \in S : <<j, j>> \notin older
  /\ \A i, j, k \in S : <<i, j>> \in older /\ <<j, k>> \in older => <<i, k>> \in older
  /\ \A T \in SUBSET S : T # {} => \E k \in T : IsOldest(older, T, k)

=============================================================================
