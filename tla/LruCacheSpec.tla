---------------------------- MODULE LruCacheSpec ----------------------------
(***************************************************************************)
(* What android::LruCache<TKey, TValue> (include/utils/LruCache.h)         *)
(* promises, without its linked list: a partial map from keys to values,   *)
(* the order in which its keys were last used, and the entries reported to *)
(* the OnEntryRemoved listener by the latest operation.  LruCache.tla is   *)
(* the linked list and implements this module.                             *)
(***************************************************************************)
EXTENDS LruOrder

VARIABLES mSet,       \* the value cached for each key, NoValue when absent
          older,      \* the recency order of the cached keys
          mListener,  \* whether a listener is set
          removed,    \* what the latest operation told the listener
          ret         \* what the latest operation returned

vars == <<mSet, older, mListener, removed, ret>>

CachedIn(s) == {k \in Key : s[k] # NoValue}
Cached == CachedIn(mSet)
Without(s, gone) == [k \in Key |-> IF k \in gone THEN NoValue ELSE s[k]]

Init ==
  /\ mSet = [k \in Key |-> NoValue]
  /\ older = {}
  /\ mListener = FALSE
  /\ removed = {}
  /\ ret = FALSE

-----------------------------------------------------------------------------
SetListener(on) ==
  /\ mListener' = on
  /\ removed' = {}
  /\ UNCHANGED <<mSet, older, ret>>

(* A hit moves the entry to the young end; a miss returns mNullValue. *)
Get(k) ==
  /\ ret' = mSet[k]
  /\ older' = IF k \in Cached THEN MakeYoungest(older, Cached, k) ELSE older
  /\ removed' = {}
  /\ UNCHANGED <<mSet, mListener>>

(* The keys removeOldest removes: the oldest, or none of an empty cache. *)
Oldest == {k \in Cached : IsOldest(older, Cached, k)}

(* A variant with a mistake: one entry too many is accepted. *)
FullLate == MaxCapacity # kUnlimitedCapacity /\ Cardinality(Cached) > MaxCapacity

Full == MaxCapacity # kUnlimitedCapacity /\ Cardinality(Cached) >= MaxCapacity

Report(gone) == removed' = IF mListener THEN {<<k, mSet[k]>> : k \in gone} ELSE {}

(* put makes room before it looks for the key, so that putting a key twice *)
(* evicts an entry of a full cache all the same, and returns FALSE unless  *)
(* that entry was the key's own.                                           *)
Put(k, v) ==
  LET gone == IF Full THEN Oldest ELSE {}
      kept == Without(mSet, gone)
      order == Drop(older, gone)
  IN /\ Report(gone)
     /\ \/ /\ kept[k] # NoValue
           /\ ret' = FALSE
           /\ mSet' = kept
           /\ older' = order
        \/ /\ kept[k] = NoValue
           /\ ret' = TRUE
           /\ mSet' = [kept EXCEPT ![k] = v]
           /\ older' = MakeYoungest(order, CachedIn(kept), k)
     /\ UNCHANGED mListener

RemoveKeys(gone, result) ==
  /\ ret' = result
  /\ mSet' = Without(mSet, gone)
  /\ older' = Drop(older, gone)
  /\ Report(gone)
  /\ UNCHANGED mListener

Remove(k) == RemoveKeys({k} \cap Cached, k \in Cached)

RemoveOldest == RemoveKeys(Oldest, Oldest # {})

Clear == RemoveKeys(Cached, ret)

PeekOldestValue ==
  /\ \/ \E k \in Oldest : ret' = mSet[k]
     \/ Oldest = {} /\ ret' = NoValue
  /\ removed' = {}
  /\ UNCHANGED <<mSet, older, mListener>>

Next ==
  \/ \E on \in BOOLEAN : SetListener(on)
  \/ \E k \in Key : Get(k) \/ Remove(k)
  \/ \E k \in Key, v \in Value : Put(k, v)
  \/ RemoveOldest
  \/ Clear
  \/ PeekOldestValue

Spec == Init /\ [][Next]_vars

-----------------------------------------------------------------------------
TypeOK ==
  /\ mSet \in [Key -> Value \cup {NoValue}]
  /\ older \in SUBSET (Key \X Key)
  /\ mListener \in BOOLEAN
  /\ removed \in SUBSET (Key \X Value)
  /\ ret \in BOOLEAN \cup Value \cup {NoValue}

(* The cached keys, and no others, are ordered by recency: there is always *)
(* exactly one entry for the next put on a full cache to evict.            *)
RecencyOrder == OrderOn(older, Cached)

(* put never leaves more than mMaxCapacity entries behind. *)
WithinCapacity ==
  /\ IsFiniteSet(Cached)
  /\ MaxCapacity # kUnlimitedCapacity => Cardinality(Cached) <= MaxCapacity

=============================================================================
