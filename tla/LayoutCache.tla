----------------------------- MODULE LayoutCache -----------------------------
(***************************************************************************)
(* LayoutCache of include/minikin/LayoutCache.h: one cache of text layouts *)
(* shared by all threads, behind one mutex that getOrCreate holds while it *)
(* searches, while f reads a cached layout, and while it inserts, but not  *)
(* while it lays out text.  mCache is the LRU map of LruCacheSpec.tla.     *)
(*                                                                         *)
(* A key is a LayoutCacheKey with its text; a piece is the address of a    *)
(* LayoutPiece on the heap.                                                *)
(***************************************************************************)
EXTENDS Naturals, FiniteSets, Sequences

CONSTANTS Thread, NoThread,
          Key, NoKey,
          Cacheable,        \* keys below LENGTH_LIMIT_CACHE whose paint is not skipCache()
          Piece, NoPiece,
          kMaxEntries,
          MaxLost           \* bound of the ghost counter lost

ASSUME LayoutAssumption ==
  /\ NoThread \notin Thread /\ IsFiniteSet(Thread)
  /\ NoKey \notin Key /\ Cacheable \subseteq Key
  /\ NoPiece \notin Piece
  /\ kMaxEntries \in Nat
  /\ MaxLost \in Nat

VARIABLES mSet, older, mListener, removed, ret,   \* mCache
          mMutex,    \* the thread that holds it
          pc,        \* where each thread is in getOrCreate
          key,       \* its key
          layout,    \* its local variable: the cached piece, or the one it made
          served,    \* ghost: what the pieces its f was given were made for
          heap,      \* what each LayoutPiece was made for, NoKey when not allocated
          raced,     \* ghost: threads whose key was inserted by another since they missed it
          lost       \* ghost: pieces nothing refers to any more, counted up to MaxLost

cacheVars == <<mSet, older, mListener, removed, ret>>
vars == <<cacheVars, mMutex, pc, key, layout, served, heap, raced, lost>>

Lru == INSTANCE LruCacheSpec WITH Value <- Piece, NoValue <- NoPiece, MaxCapacity <- kMaxEntries

Cached == Lru!Cached

Init ==
  /\ Lru!Init
  /\ mMutex = NoThread
  /\ pc = [t \in Thread |-> "idle"]
  /\ key = [t \in Thread |-> NoKey]
  /\ layout = [t \in Thread |-> NoPiece]
  /\ served = [t \in Thread |-> << >>]
  /\ heap = [p \in Piece |-> NoKey]
  /\ raced = {}
  /\ lost = 0

-----------------------------------------------------------------------------
Unlocked == mMutex = NoThread
Goto(t, label) == pc' = [pc EXCEPT ![t] = label]

(* f is given a piece that was made for k. *)
CallF(t, k) == served' = [served EXCEPT ![t] = Append(@, k)]

(* LayoutCache::operator(): the listener deletes the piece of each entry   *)
(* that leaves the cache.                                                  *)
AfterListener(h) == [p \in Piece |-> IF \E k \in Key : <<k, p>> \in removed' THEN NoKey ELSE h[p]]

(* The call is made; getInstance() constructs the cache for the first one, *)
(* and the constructor sets the listener.                                  *)
Begin(t, k) ==
  /\ pc[t] = "idle"
  /\ Lru!SetListener(TRUE)
  /\ key' = [key EXCEPT ![t] = k]
  /\ Goto(t, IF k \in Cacheable THEN "lookup" ELSE "bypass")
  /\ UNCHANGED <<mMutex, layout, served, heap, raced, lost>>

(* A long run or a paint with font features: lay out, call f, keep nothing.*)
Bypass(t) ==
  /\ pc[t] = "bypass"
  /\ CallF(t, key[t])
  /\ Goto(t, "return")
  /\ UNCHANGED <<cacheVars, mMutex, key, layout, heap, raced, lost>>

(* A variant with a mistake: the lock is released before f reads the piece. *)
HitUnlocked(t) ==
  /\ pc[t] = "lookup" /\ Unlocked /\ key[t] \in Cached
  /\ Lru!Get(key[t])
  /\ layout' = [layout EXCEPT ![t] = ret']
  /\ Goto(t, "hit")
  /\ UNCHANGED <<mMutex, key, served, heap, raced, lost>>

(* Found: the lock is kept while f reads the cached piece. *)
Hit(t) ==
  /\ pc[t] = "lookup" /\ Unlocked /\ key[t] \in Cached
  /\ mMutex' = t
  /\ Lru!Get(key[t])
  /\ layout' = [layout EXCEPT ![t] = ret']
  /\ Goto(t, "hit")
  /\ UNCHANGED <<key, served, heap, raced, lost>>

(* A variant with a mistake: the lock is not released. *)
ReadHitKeepingLock(t) ==
  /\ pc[t] = "hit"
  /\ CallF(t, heap[layout[t]])
  /\ layout' = [layout EXCEPT ![t] = NoPiece]
  /\ Goto(t, "return")
  /\ UNCHANGED <<cacheVars, mMutex, key, heap, raced, lost>>

ReadHit(t) ==
  /\ pc[t] = "hit"
  /\ CallF(t, heap[layout[t]])
  /\ mMutex' = NoThread
  /\ layout' = [layout EXCEPT ![t] = NoPiece]
  /\ Goto(t, "return")
  /\ UNCHANGED <<cacheVars, key, heap, raced, lost>>

(* A variant with a mistake: what was found is laid out again. *)
MissAlways(t) ==
  /\ pc[t] = "lookup" /\ Unlocked
  /\ Lru!Get(key[t])
  /\ Goto(t, "layout")
  /\ UNCHANGED <<mMutex, key, layout, served, heap, raced, lost>>

(* Not found: the lock is released before the text is laid out. *)
Miss(t) ==
  /\ pc[t] = "lookup" /\ Unlocked /\ key[t] \notin Cached
  /\ Lru!Get(key[t])
  /\ Goto(t, "layout")
  /\ UNCHANGED <<mMutex, key, layout, served, heap, raced, lost>>

(* A variant with a mistake: f is not called for a new layout. *)
LayOutOnly(t) ==
  /\ pc[t] = "layout"
  /\ \E p \in {q \in Piece : heap[q] = NoKey} :
       /\ heap' = [heap EXCEPT ![p] = key[t]]
       /\ layout' = [layout EXCEPT ![t] = p]
  /\ Goto(t, "insert")
  /\ UNCHANGED <<cacheVars, mMutex, key, served, raced, lost>>

(* copyText, make_unique<LayoutPiece> and f, all without the lock. *)
LayOut(t) ==
  /\ pc[t] = "layout"
  /\ \E p \in {q \in Piece : heap[q] = NoKey} :
       /\ heap' = [heap EXCEPT ![p] = key[t]]
       /\ layout' = [layout EXCEPT ![t] = p]
  /\ CallF(t, key[t])
  /\ Goto(t, "insert")
  /\ UNCHANGED <<cacheVars, mMutex, key, raced, lost>>

(* A variant with a mistake: the listener deletes nothing.                 *)
InsertWithoutDelete(t) ==
  /\ pc[t] = "insert" /\ Unlocked
  /\ Lru!Put(key[t], layout[t])
  /\ IF ret' THEN heap' = heap /\ lost' = lost
     ELSE /\ heap' = [heap EXCEPT ![layout[t]] = NoKey]
          /\ lost' = IF lost < MaxLost THEN lost + 1 ELSE lost
  /\ layout' = [layout EXCEPT ![t] = NoPiece]
  /\ raced' = (raced \cup {u \in Thread : key[u] = key[t] /\ pc[u] \in {"layout", "insert"}}) \ {t}
  /\ Goto(t, "return")
  /\ UNCHANGED <<mMutex, key, served>>

(* put(key, layout.release()): when put refuses the key, nothing refers to *)
(* the piece any more.  It counts as lost, and the model reuses its        *)
(* address so that the number of pieces stays bounded.                     *)
Insert(t) ==
  /\ pc[t] = "insert" /\ Unlocked
  /\ Lru!Put(key[t], layout[t])
  /\ IF ret' THEN heap' = AfterListener(heap) /\ lost' = lost
     ELSE /\ heap' = [AfterListener(heap) EXCEPT ![layout[t]] = NoKey]
          /\ lost' = IF lost < MaxLost THEN lost + 1 ELSE lost
  /\ layout' = [layout EXCEPT ![t] = NoPiece]
  /\ raced' = (raced \cup {u \in Thread : key[u] = key[t] /\ pc[u] \in {"layout", "insert"}}) \ {t}
  /\ Goto(t, "return")
  /\ UNCHANGED <<mMutex, key, served>>

Return(t) ==
  /\ pc[t] = "return"
  /\ key' = [key EXCEPT ![t] = NoKey]
  /\ served' = [served EXCEPT ![t] = << >>]
  /\ Goto(t, "idle")
  /\ UNCHANGED <<cacheVars, mMutex, layout, heap, raced, lost>>

(* clear(), of Layout::purgeCaches, by a thread outside getOrCreate. *)
Purge(t) ==
  /\ pc[t] = "idle" /\ Unlocked
  /\ IF mListener THEN Lru!Clear ELSE Lru!SetListener(TRUE)
  /\ heap' = AfterListener(heap)
  /\ UNCHANGED <<mMutex, pc, key, layout, served, raced, lost>>

Proceed(t) ==
  \/ Bypass(t) \/ Hit(t) \/ ReadHit(t) \/ Miss(t) \/ LayOut(t) \/ Insert(t) \/ Return(t)

NewWork == \E t \in Thread : Purge(t) \/ \E k \in Key : Begin(t, k)

Next == NewWork \/ \E t \in Thread : Proceed(t)

Spec == Init /\ [][Next]_vars

(* A thread inside getOrCreate keeps running when it can; nothing more is  *)
(* assumed of the mutex than that a thread gets it when it stays free.     *)
FairSpec == Spec /\ \A t \in Thread : WF_vars(Proceed(t))

-----------------------------------------------------------------------------
Label == {"idle", "lookup", "bypass", "hit", "layout", "insert", "return"}

TypeOK ==
  /\ Lru!TypeOK
  /\ mMutex \in Thread \cup {NoThread}
  /\ pc \in [Thread -> Label]
  /\ key \in [Thread -> Key \cup {NoKey}]
  /\ layout \in [Thread -> Piece \cup {NoPiece}]
  /\ served \in [Thread -> Seq(Key)]
  /\ heap \in [Piece -> Key \cup {NoKey}]
  /\ raced \in SUBSET Thread
  /\ lost \in 0..MaxLost

CachedAreAlive == \A k \in Cached : heap[mSet[k]] = k
HitIsAlive == \A t \in Thread : pc[t] = "hit" => heap[layout[t]] = key[t]

(* No cached layout is freed memory or the layout of other text, nor is    *)
(* the piece f reads during a hit, though other threads evict and purge    *)
(* meanwhile.                                                              *)
LayoutsAreAlive == CachedAreAlive /\ HitIsAlive

(* Every allocated piece, apart from those counted in lost, has exactly    *)
(* one owner, which will delete it: the entry of the cache it is in, or    *)
(* the thread about to insert it.                                          *)
OneOwner ==
  \A p \in Piece : heap[p] # NoKey =>
    \/ /\ \E k \in Cached : mSet[k] = p
       /\ \A t \in Thread : pc[t] = "insert" => layout[t] # p
    \/ /\ \E t \in Thread : /\ pc[t] = "insert" /\ layout[t] = p
                            /\ \A u \in Thread \ {t} : pc[u] = "insert" => layout[u] # p
       /\ \A k \in Cached : mSet[k] # p

(* A thread finds its key already inserted, and loses its piece, only when *)
(* another thread laid out the same text during the call.                  *)
LostOnlyByRace ==
  \A t \in Thread : pc[t] \in {"layout", "insert"} /\ key[t] \in Cached => t \in raced

(* Layouts of long text and of paints with features never get in.          *)
OnlyCacheable == Cached \subseteq Cacheable

(* Whatever is cached and whoever else calls, f is called once with the    *)
(* right layout.                                                           *)
Service == INSTANCE LayoutService
KeepsService == Service!Spec

(* However many threads miss at once, and whatever they evict and purge,   *)
(* the layouts allocated, apart from lost ones, never outnumber the        *)
(* entries the cache may have and the threads about to insert one.         *)
Inserting == {t \in Thread : pc[t] = "insert"}
Allocated == {p \in Piece : heap[p] # NoKey}
LayoutsAreBounded ==
  kMaxEntries # Lru!kUnlimitedCapacity =>
    Cardinality(Allocated) <= kMaxEntries + Cardinality(Inserting)

(* When no new work arrives, every call under way returns: no thread waits *)
(* for the mutex for ever.                                                 *)
CallsReturn ==
  <>[][~NewWork]_vars => \A t \in Thread : pc[t] # "idle" ~> pc[t] = "idle"

=============================================================================
