------------------------- MODULE LruCacheSpecProofs -------------------------
(***************************************************************************)
(* The safety of the LRU map for every set of keys, every set of values    *)
(* and every capacity.  The inductive invariant is TypeOK, RecencyOrder    *)
(* and WithinCapacity together: the capacity is kept because an eviction   *)
(* from a full cache finds an oldest entry, which the recency order        *)
(* provides.                                                               *)
(***************************************************************************)
EXTENDS LruCacheSpec, FiniteSetTheorems, TLAPS

(* Using or inserting a key (get and put of LruCache.h) keeps the recency  *)
(* order a strict total order.                                             *)
LEMMA MakeYoungestOrder ==
  ASSUME NEW S, NEW order, NEW k, OrderOn(order, S)
  PROVE  OrderOn(MakeYoungest(order, S, k), S \cup {k})
<1> DEFINE new == MakeYoungest(order, S, k)
<1>1. /\ new \subseteq (S \cup {k}) \X (S \cup {k})
      /\ \A j \in S \cup {k} : <<j, j>> \notin new
  BY DEF OrderOn, MakeYoungest, Drop
<1>2. \A h, i, j \in S \cup {k} : <<h, i>> \in new /\ <<i, j>> \in new => <<h, j>> \in new
  BY DEF OrderOn, MakeYoungest, Drop
<1>3. ASSUME NEW T \in SUBSET (S \cup {k}), T # {}
      PROVE  \E j \in T : IsOldest(new, T, j)
  <2>1. CASE T \ {k} = {}
    BY <2>1, <1>3 DEF IsOldest
  <2>2. CASE T \ {k} # {}
    <3>1. PICK j \in T \ {k} : IsOldest(order, T \ {k}, j)
      BY <2>2, T \ {k} \in SUBSET S DEF OrderOn
    <3>2. IsOldest(new, T, j)
      BY <3>1 DEF IsOldest, MakeYoungest, Drop
    <3>. QED  BY <3>2
  <2>. QED  BY <2>1, <2>2
<1>. QED  BY <1>1, <1>2, <1>3 DEF OrderOn

(* Removing any keys (remove, removeOldest, clear of LruCache.h) keeps the *)
(* recency order a strict total order of the rest.                         *)
LEMMA DropOrder ==
  ASSUME NEW S, NEW order, NEW gone, OrderOn(order, S)
  PROVE  OrderOn(Drop(order, gone), S \ gone)
<1> DEFINE new == Drop(order, gone)
<1>1. /\ new \subseteq (S \ gone) \X (S \ gone)
      /\ \A j \in S \ gone : <<j, j>> \notin new
      /\ \A h, i, j \in S \ gone : <<h, i>> \in new /\ <<i, j>> \in new => <<h, j>> \in new
  BY DEF OrderOn, Drop
<1>2. ASSUME NEW T \in SUBSET (S \ gone), T # {}
      PROVE  \E j \in T : IsOldest(new, T, j)
  <2>1. PICK j \in T : IsOldest(order, T, j)
    BY <1>2, T \in SUBSET S DEF OrderOn
  <2>. QED  BY <2>1 DEF IsOldest, Drop
<1>. QED  BY <1>1, <1>2 DEF OrderOn

(* mOldest is one entry: which one an eviction removes is determined.      *)
LEMMA OldestUnique ==
  ASSUME NEW S, NEW order, OrderOn(order, S),
         NEW j, NEW k, IsOldest(order, S, j), IsOldest(order, S, k)
  PROVE  j = k
  BY DEF OrderOn, IsOldest

-----------------------------------------------------------------------------
Inv == TypeOK /\ RecencyOrder /\ WithinCapacity

(* Taking keys out of the cache keeps its order and its size limit. *)
LEMMA RemoveKeysInv ==
  ASSUME Inv, NEW gone \in SUBSET Cached, NEW s, s = Without(mSet, gone)
  PROVE  /\ s \in [Key -> Value \cup {NoValue}]
         /\ CachedIn(s) = Cached \ gone
         /\ Drop(older, gone) \in SUBSET (Key \X Key)
         /\ OrderOn(Drop(older, gone), Cached \ gone)
         /\ IsFiniteSet(Cached \ gone)
         /\ Cardinality(Cached \ gone) <= Cardinality(Cached)
<1>1. s \in [Key -> Value \cup {NoValue}] /\ CachedIn(s) = Cached \ gone
  BY DEF Inv, TypeOK, Cached, CachedIn, Without
<1>2. Drop(older, gone) \in SUBSET (Key \X Key)
  BY DEF Inv, TypeOK, Drop
<1>3. OrderOn(Drop(older, gone), Cached \ gone)
  BY DropOrder DEF Inv, RecencyOrder
<1>4. IsFiniteSet(Cached \ gone) /\ Cardinality(Cached \ gone) <= Cardinality(Cached)
  BY FS_Subset DEF Inv, WithinCapacity
<1>. QED  BY <1>1, <1>2, <1>3, <1>4

(* removeOldest makes room in a full cache of positive capacity. *)
LEMMA EvictionMakesRoom ==
  ASSUME Inv, Full
  PROVE  /\ Oldest \in SUBSET Cached
         /\ Cardinality(Cached \ Oldest) < MaxCapacity
<1>1. Cardinality(Cached) = MaxCapacity /\ MaxCapacity \in Nat /\ MaxCapacity # 0
  BY LruAssumption, FS_CardinalityType DEF Inv, WithinCapacity, Full, kUnlimitedCapacity
<1>2. Cached # {}
  BY <1>1, FS_EmptySet
<1>3. PICK k \in Cached : IsOldest(older, Cached, k)
  BY <1>2, Cached \in SUBSET Cached DEF Inv, RecencyOrder, OrderOn
<1>4. Oldest = {k}
  BY <1>3, OldestUnique DEF Oldest, Inv, RecencyOrder
<1>5. Cardinality(Cached \ {k}) = Cardinality(Cached) - 1
  BY <1>3, FS_RemoveElement DEF Inv, WithinCapacity
<1>. QED  BY <1>1, <1>3, <1>4, <1>5

LEMMA GetInv ==
  ASSUME Inv, NEW k \in Key, Get(k)
  PROVE  Inv'
<1>1. CachedIn(mSet') = Cached /\ Cached' = Cached
  BY DEF Get, Cached, CachedIn
<1>2. TypeOK'
  <2>1. MakeYoungest(older, Cached, k) \in SUBSET (Key \X Key)
    BY DEF Inv, TypeOK, MakeYoungest, Drop, Cached, CachedIn
  <2>2. ret' \in BOOLEAN \cup Value \cup {NoValue}
    BY DEF Get, Inv, TypeOK
  <2>. QED  BY <2>1, <2>2 DEF Get, Inv, TypeOK
<1>3. RecencyOrder'
  <2>1. CASE k \in Cached
    <3>1. Cached \cup {k} = Cached
      BY <2>1
    <3>2. OrderOn(MakeYoungest(older, Cached, k), Cached)
      BY <3>1, MakeYoungestOrder DEF Inv, RecencyOrder
    <3>. QED  BY <2>1, <3>2, <1>1 DEF Get, RecencyOrder
  <2>2. CASE k \notin Cached
    BY <2>2, <1>1 DEF Get, RecencyOrder, Inv
  <2>. QED  BY <2>1, <2>2
<1>4. WithinCapacity'
  BY <1>1 DEF WithinCapacity, Inv
<1>. QED  BY <1>2, <1>3, <1>4 DEF Inv

LEMMA RemoveKeysStep ==
  ASSUME Inv, NEW gone \in SUBSET Cached, NEW r \in BOOLEAN \cup Value \cup {NoValue},
         RemoveKeys(gone, r)
  PROVE  Inv'
<1>1. /\ mSet' \in [Key -> Value \cup {NoValue}]
      /\ Cached' = Cached \ gone
      /\ older' \in SUBSET (Key \X Key)
      /\ OrderOn(older', Cached \ gone)
      /\ IsFiniteSet(Cached \ gone)
      /\ Cardinality(Cached \ gone) <= Cardinality(Cached)
  BY RemoveKeysInv DEF RemoveKeys, Cached
<1>2. removed' \in SUBSET (Key \X Value)
  BY DEF RemoveKeys, Report, Inv, TypeOK, Cached, CachedIn
<1>3. TypeOK'
  BY <1>1, <1>2 DEF TypeOK, Inv, RemoveKeys
<1>4. RecencyOrder'
  BY <1>1 DEF RecencyOrder
<1>5. WithinCapacity'
  <2>1. Cardinality(Cached) \in Nat /\ Cardinality(Cached \ gone) \in Nat
    BY <1>1, FS_CardinalityType DEF Inv, WithinCapacity
  <2>. QED  BY <1>1, <2>1, LruAssumption DEF WithinCapacity, Inv
<1>. QED  BY <1>3, <1>4, <1>5 DEF Inv

LEMMA PutInv ==
  ASSUME Inv, NEW k \in Key, NEW v \in Value, Put(k, v)
  PROVE  Inv'
<1> DEFINE gone == IF Full THEN Oldest ELSE {}
           kept == Without(mSet, gone)
           order == Drop(older, gone)
<1>1. gone \in SUBSET Cached
  BY DEF Oldest
<1>2. /\ kept \in [Key -> Value \cup {NoValue}]
      /\ CachedIn(kept) = Cached \ gone
      /\ order \in SUBSET (Key \X Key)
      /\ OrderOn(order, Cached \ gone)
      /\ IsFiniteSet(Cached \ gone)
      /\ Cardinality(Cached \ gone) <= Cardinality(Cached)
  BY <1>1, RemoveKeysInv
<1>3. Cardinality(Cached) \in Nat /\ Cardinality(Cached \ gone) \in Nat
  BY <1>2, FS_CardinalityType DEF Inv, WithinCapacity
<1>4. MaxCapacity # kUnlimitedCapacity => Cardinality(Cached \ gone) < MaxCapacity
  <2>1. CASE Full
    BY <2>1, EvictionMakesRoom
  <2>2. CASE ~Full
    BY <2>2, <1>2, <1>3, LruAssumption DEF Full, kUnlimitedCapacity
  <2>. QED  BY <2>1, <2>2
<1>5. removed' \in SUBSET (Key \X Value)
  BY <1>1 DEF Put, Report, Inv, TypeOK, Cached, CachedIn
<1>6. ASSUME mSet' = kept, older' = order, ret' = FALSE
      PROVE  Inv'
  <2>1. Cached' = Cached \ gone
    BY <1>2, <1>6 DEF Cached
  <2>2. TypeOK'
    BY <1>2, <1>5, <1>6 DEF TypeOK, Inv, Put
  <2>3. RecencyOrder'
    BY <1>2, <1>6, <2>1 DEF RecencyOrder
  <2>4. WithinCapacity'
    BY <1>2, <1>3, <1>4, <2>1, LruAssumption DEF WithinCapacity
  <2>. QED  BY <2>2, <2>3, <2>4 DEF Inv
<1>7. ASSUME kept[k] = NoValue, ret' = TRUE, mSet' = [kept EXCEPT ![k] = v],
             older' = MakeYoungest(order, CachedIn(kept), k)
      PROVE  Inv'
  <2>1. Cached' = (Cached \ gone) \cup {k} /\ k \notin Cached \ gone
    BY <1>2, <1>7, LruAssumption DEF Cached, CachedIn
  <2>2. TypeOK'
    <3>1. mSet' \in [Key -> Value \cup {NoValue}]
      BY <1>2, <1>7
    <3>2. older' \in SUBSET (Key \X Key)
      BY <1>2, <1>7 DEF MakeYoungest, Drop, CachedIn
    <3>. QED  BY <3>1, <3>2, <1>5, <1>7 DEF TypeOK, Inv, Put
  <2>3. RecencyOrder'
    <3>1. OrderOn(MakeYoungest(order, Cached \ gone, k), (Cached \ gone) \cup {k})
      BY <1>2, MakeYoungestOrder
    <3>. QED  BY <3>1, <1>2, <1>7, <2>1 DEF RecencyOrder
  <2>4. WithinCapacity'
    <3>1. /\ IsFiniteSet((Cached \ gone) \cup {k})
          /\ Cardinality((Cached \ gone) \cup {k}) = Cardinality(Cached \ gone) + 1
      BY <1>2, <2>1, FS_AddElement
    <3>. QED  BY <3>1, <2>1, <1>3, <1>4, LruAssumption DEF WithinCapacity
  <2>. QED  BY <2>2, <2>3, <2>4 DEF Inv
<1>. QED  BY <1>6, <1>7 DEF Put

(* The invariant holds of every behaviour of the cache. *)
THEOREM CacheSafe == Spec => []Inv
<1>1. Init => Inv
  <2> SUFFICES ASSUME Init PROVE Inv
    OBVIOUS
  <2>1. TypeOK
    BY DEF Init, TypeOK
  <2>2. Cached = {}
    BY DEF Init, Cached, CachedIn
  <2>3. RecencyOrder
    BY <2>2 DEF Init, RecencyOrder, OrderOn
  <2>4. WithinCapacity
    BY <2>2, FS_EmptySet, LruAssumption DEF WithinCapacity
  <2>. QED  BY <2>1, <2>3, <2>4 DEF Inv
<1>2. Inv /\ [Next]_vars => Inv'
  <2> SUFFICES ASSUME Inv, [Next]_vars PROVE Inv'
    OBVIOUS
  <2>1. ASSUME NEW on \in BOOLEAN, SetListener(on) PROVE Inv'
    BY <2>1 DEF SetListener, Inv, TypeOK, RecencyOrder, WithinCapacity, Cached, CachedIn
  <2>2. ASSUME NEW k \in Key, Get(k) PROVE Inv'
    BY <2>2, GetInv
  <2>3. ASSUME NEW k \in Key, Remove(k) PROVE Inv'
    <3>1. PICK r \in BOOLEAN : r = (k \in Cached) /\ RemoveKeys({k} \cap Cached, r)
      BY <2>3, (k \in Cached) \in BOOLEAN DEF Remove
    <3>. QED  BY <3>1, RemoveKeysStep, {k} \cap Cached \in SUBSET Cached
  <2>4. ASSUME NEW k \in Key, NEW v \in Value, Put(k, v) PROVE Inv'
    BY <2>4, PutInv
  <2>5. CASE RemoveOldest
    BY <2>5, RemoveKeysStep, Oldest \in SUBSET Cached DEF RemoveOldest, Oldest
  <2>6. CASE Clear
    BY <2>6, RemoveKeysStep, Cached \in SUBSET Cached DEF Clear, Inv, TypeOK
  <2>7. CASE PeekOldestValue
    <3>1. ret' \in BOOLEAN \cup Value \cup {NoValue}
      BY <2>7 DEF PeekOldestValue, Oldest, Cached, CachedIn, Inv, TypeOK
    <3>. QED  BY <2>7, <3>1 DEF PeekOldestValue, Inv, TypeOK, RecencyOrder, WithinCapacity, Cached, CachedIn
  <2>8. CASE UNCHANGED vars
    BY <2>8 DEF vars, Inv, TypeOK, RecencyOrder, WithinCapacity, Cached, CachedIn
  <2>. QED  BY <2>1, <2>2, <2>3, <2>4, <2>5, <2>6, <2>7, <2>8 DEF Next
<1>. QED  BY <1>1, <1>2, PTL DEF Spec

(* put never leaves more than mMaxCapacity entries in the cache, whatever  *)
(* the order of the operations.                                            *)
THEOREM CapacityKept == Spec => []WithinCapacity
  BY CacheSafe, PTL DEF Inv

(* The cached keys are always totally ordered by their last use, so that   *)
(* what removeOldest evicts is determined: the least recently used one.    *)
THEOREM RecencyKept == Spec => []RecencyOrder
  BY CacheSafe, PTL DEF Inv

=============================================================================
