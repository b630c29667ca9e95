------------------------------ MODULE LruCache ------------------------------
(***************************************************************************)
(* android::LruCache<TKey, TValue> of include/utils/LruCache.h: a hash set *)
(* of heap entries that are also the nodes of a doubly linked list, oldest *)
(* first.  The whole object is one record, so that a public operation is   *)
(* the composition of the member functions it calls.  The class has no     *)
(* lock: its user serialises the operations (LayoutCache.tla).             *)
(***************************************************************************)
EXTENDS LruOrder, Sequences
S == INSTANCE SequencesExt

CONSTANTS Addr,       \* heap addresses for Entry objects
          NullPtr     \* nullptr

ASSUME CacheAssumption == NullPtr \notin Addr /\ IsFiniteSet(Addr)

VARIABLES cache,      \* mSet, mOldest, mYoungest, and the heap of entries
          mListener,  \* whether mListener is set
          calls,      \* the listener calls of the latest operation, in order
          ret         \* the value returned by the latest operation

vars == <<cache, mListener, calls, ret>>

Pointer == Addr \cup {NullPtr}
NoKey == NoValue
Freed == [key |-> NoKey, value |-> NoValue, parent |-> NullPtr, child |-> NullPtr]
NewEntry(k, v) == [key |-> k, value |-> v, parent |-> NullPtr, child |-> NullPtr]

Empty == [set |-> {}, node |-> [a \in Addr |-> Freed], oldest |-> NullPtr, youngest |-> NullPtr]

Init ==
  /\ cache = Empty
  /\ mListener = FALSE
  /\ calls = << >>
  /\ ret = FALSE

-----------------------------------------------------------------------------
(* Private member functions, on a cache c. *)

SetParent(c, a, p) == [c EXCEPT !.node[a].parent = p]
SetChild(c, a, p) == [c EXCEPT !.node[a].child = p]

(* A variant with a mistake: the young end of the list is not updated.     *)
DetachFromCacheNoYoungest(c, a) ==
  LET e == c.node[a]
      up == IF e.parent # NullPtr THEN SetChild(c, e.parent, e.child)
            ELSE [c EXCEPT !.oldest = e.child]
      down == IF e.child # NullPtr THEN SetParent(up, e.child, e.parent) ELSE up
  IN SetChild(SetParent(down, a, NullPtr), a, NullPtr)

DetachFromCache(c, a) ==
  LET e == c.node[a]
      up == IF e.parent # NullPtr THEN SetChild(c, e.parent, e.child)
            ELSE [c EXCEPT !.oldest = e.child]
      down == IF e.child # NullPtr THEN SetParent(up, e.child, e.parent)
              ELSE [up EXCEPT !.youngest = e.parent]
  IN SetChild(SetParent(down, a, NullPtr), a, NullPtr)

AttachToCache(c, a) ==
  IF c.youngest = NullPtr THEN [c EXCEPT !.youngest = a, !.oldest = a]
  ELSE [SetChild(SetParent(c, a, c.youngest), c.youngest, a) EXCEPT !.youngest = a]

(* The entry of mSet for k, or nullptr for mSet->end(). *)
FindByKey(c, k) ==
  IF \E a \in c.set : c.node[a].key = k THEN CHOOSE a \in c.set : c.node[a].key = k
  ELSE NullPtr

(* The list as clear walks it: from mOldest along child, for as long as    *)
(* the pointer is not nullptr.  No walk is longer than there are entries.  *)
IsWalk(c, at) == \A i \in DOMAIN at :
  at[i] = IF i = 1 THEN c.oldest
          ELSE IF at[i - 1] = NullPtr THEN NullPtr ELSE c.node[at[i - 1]].child
Chain(c) ==
  LET at == CHOOSE at \in [1..Cardinality(Addr) -> Pointer] : IsWalk(c, at)
  IN [i \in 1..Cardinality({j \in DOMAIN at : at[j] # NullPtr}) |-> at[i]]

(* The listener is told about the entries at these addresses, in order. *)
Report(list) ==
  calls' = IF mListener THEN [i \in DOMAIN list |-> <<cache.node[list[i]].key, cache.node[list[i]].value>>]
           ELSE << >>
ListOf(a) == IF a = NullPtr THEN << >> ELSE <<a>>

(* remove(key) on c: the cache without the entry. *)
Removed(c, k) ==
  LET a == FindByKey(c, k) IN
  IF a = NullPtr THEN c
  ELSE [DetachFromCache([c EXCEPT !.set = @ \ {a}], a) EXCEPT !.node[a] = Freed]

(* The second half of put(k, v), with the new Entry at a. *)
Inserted(c, a, k, v) ==
  AttachToCache([c EXCEPT !.set = @ \cup {a}, !.node[a] = NewEntry(k, v)], a)

(* removeOldest on c: the entry it removes (none of an empty cache), and   *)
(* the cache without it.                                                   *)
Doomed(c) == IF c.oldest = NullPtr THEN NullPtr ELSE FindByKey(c, c.node[c.oldest].key)
WithoutOldest(c) == IF c.oldest = NullPtr THEN c ELSE Removed(c, c.node[c.oldest].key)

Full(c) == MaxCapacity # kUnlimitedCapacity /\ Cardinality(c.set) >= MaxCapacity

-----------------------------------------------------------------------------
(* The public operations. *)

SetOnEntryRemovedListener(on) ==
  /\ mListener' = on
  /\ calls' = << >>
  /\ UNCHANGED <<cache, ret>>

Get(k) ==
  /\ LET a == FindByKey(cache, k) IN
     \/ /\ a = NullPtr
        /\ ret' = NoValue
        /\ UNCHANGED cache
     \/ /\ a # NullPtr
        /\ cache' = AttachToCache(DetachFromCache(cache, a), a)
        /\ ret' = cache.node[a].value
  /\ calls' = << >>
  /\ UNCHANGED mListener

(* A variant with a mistake: the key may be in the set already. *)
PutWithoutSearch(k, v) ==
  LET c == IF Full(cache) THEN WithoutOldest(cache) ELSE cache
  IN /\ Report(IF Full(cache) THEN ListOf(Doomed(cache)) ELSE << >>)
     /\ \E a \in Addr \ c.set : cache' = Inserted(c, a, k, v)
     /\ ret' = TRUE
     /\ UNCHANGED mListener

Put(k, v) ==
  LET c == IF Full(cache) THEN WithoutOldest(cache) ELSE cache
  IN /\ Report(IF Full(cache) THEN ListOf(Doomed(cache)) ELSE << >>)
     /\ \/ /\ FindByKey(c, k) # NullPtr
           /\ cache' = c
           /\ ret' = FALSE
        \/ /\ FindByKey(c, k) = NullPtr
           /\ \E a \in Addr \ c.set : cache' = Inserted(c, a, k, v)
           /\ ret' = TRUE
     /\ UNCHANGED mListener

Remove(k) ==
  /\ cache' = Removed(cache, k)
  /\ ret' = (FindByKey(cache, k) # NullPtr)
  /\ Report(ListOf(FindByKey(cache, k)))
  /\ UNCHANGED mListener

RemoveOldest ==
  /\ cache' = WithoutOldest(cache)
  /\ ret' = (Doomed(cache) # NullPtr)
  /\ Report(ListOf(Doomed(cache)))
  /\ UNCHANGED mListener

(* A variant with a mistake: the listener hears of the last entry twice. *)
ClearTellingTwice ==
  /\ cache' = Empty
  /\ Report(Chain(cache) \o ListOf(cache.youngest))
  /\ UNCHANGED <<mListener, ret>>

Clear ==
  /\ cache' = Empty
  /\ Report(Chain(cache))
  /\ UNCHANGED <<mListener, ret>>

PeekOldestValue ==
  /\ ret' = IF cache.oldest = NullPtr THEN NoValue ELSE cache.node[cache.oldest].value
  /\ calls' = << >>
  /\ UNCHANGED <<cache, mListener>>

Next ==
  \/ \E on \in BOOLEAN : SetOnEntryRemovedListener(on)
  \/ \E k \in Key : Get(k) \/ Remove(k)
  \/ \E k \in Key, v \in Value : Put(k, v)
  \/ RemoveOldest
  \/ Clear
  \/ PeekOldestValue

Spec == Init /\ [][Next]_vars

-----------------------------------------------------------------------------
Entry == [key : Key \cup {NoKey}, value : Value \cup {NoValue}, parent : Pointer, child : Pointer]

TypeOK ==
  /\ cache \in [set : SUBSET Addr, node : [Addr -> Entry], oldest : Pointer, youngest : Pointer]
  /\ mListener \in BOOLEAN
  /\ calls \in Seq(Key \X Value)
  /\ ret \in BOOLEAN \cup Value \cup {NoValue}

(* The hash set and the list hold the same entries: walking the list from  *)
(* mOldest visits each entry of mSet exactly once and ends at mYoungest,   *)
(* walking back takes the same links, and no entry is freed memory.        *)
WellLinked ==
  LET list == Chain(cache) IN
  /\ S!ToSet(list) = cache.set /\ S!IsInjective(list)
  /\ cache.youngest = IF list = << >> THEN NullPtr ELSE S!Last(list)
  /\ \A i \in 1..Len(list) :
       cache.node[list[i]].parent = IF i = 1 THEN NullPtr ELSE list[i - 1]
  /\ \A a \in cache.set : cache.node[a].key \in Key
  /\ \A a, b \in cache.set : cache.node[a].key = cache.node[b].key => a = b

(* One operation tells the listener about an entry at most once: for the   *)
(* layout cache a second call would free the layout twice.                 *)
ToldOnce == S!IsInjective(calls)

-----------------------------------------------------------------------------
(* The linked list implements the map with a recency order: same results,  *)
(* same evictions, same listener calls.                                    *)
ListOrder(c) == LET list == Chain(c) IN
  {p \in Key \X Key : \E i, j \in 1..Len(list) :
     i < j /\ p = <<c.node[list[i]].key, c.node[list[j]].key>>}

ValueOf(c, k) == LET a == FindByKey(c, k) IN IF a = NullPtr THEN NoValue ELSE c.node[a].value

Promise == INSTANCE LruCacheSpec WITH
  mSet <- [k \in Key |-> ValueOf(cache, k)], older <- ListOrder(cache), removed <- S!ToSet(calls)

KeepsPromise == Promise!Spec

=============================================================================
