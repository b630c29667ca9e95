-------------------------- MODULE LayoutCacheProofs --------------------------
(***************************************************************************)
(* The safety of the layout cache for any number of threads, keys, pieces  *)
(* and entries.  The inductive invariant Inv adds to the properties that   *)
(* TLC checks what each thread's local variables hold at each point of     *)
(* getOrCreate (Locals), that the mutex is held by a thread reading a hit  *)
(* and by nobody else (LockHeld), and that the listener is set before the  *)
(* first entry can leave the cache (ListenerSet).                          *)
(***************************************************************************)
EXTENDS LayoutCache, FiniteSetTheorems, TLAPS

Locals ==
  \A t \in Thread :
    /\ pc[t] = "idle" => key[t] = NoKey /\ served[t] = << >>
    /\ pc[t] = "bypass" => key[t] \in Key /\ served[t] = << >>
    /\ pc[t] \in {"lookup", "layout", "hit"} => key[t] \in Cacheable /\ served[t] = << >>
    /\ pc[t] = "insert" => key[t] \in Cacheable /\ served[t] = <<key[t]>>
    /\ pc[t] = "return" => key[t] \in Key /\ served[t] = <<key[t]>>

(* The pieces threads hold: the cached one of a hit, an own one to insert. *)
Pieces ==
  \A t \in Thread :
    /\ pc[t] = "hit" => key[t] \in Cached /\ layout[t] = mSet[key[t]]
    /\ pc[t] = "insert" => layout[t] \in Piece /\ heap[layout[t]] = key[t]

LockHeld == \A t \in Thread : pc[t] = "hit" <=> mMutex = t

ListenerSet == mListener = TRUE \/ (Cached = {} /\ \A t \in Thread : pc[t] = "idle")

Inv ==
  /\ TypeOK /\ Locals /\ Pieces /\ LockHeld /\ ListenerSet
  /\ CachedAreAlive /\ OneOwner /\ LostOnlyByRace /\ OnlyCacheable

-----------------------------------------------------------------------------
(* What an operation of mCache does to the map and tells the listener.     *)
LEMMA PutEffect ==
  ASSUME Lru!TypeOK, mListener = TRUE, NEW k \in Key, NEW p \in Piece, Lru!Put(k, p)
  PROVE  \E gone \in SUBSET Cached :
           /\ removed' = {<<j, mSet[j]>> : j \in gone}
           /\ Lru!TypeOK'
           /\ mListener' = TRUE
           /\ \/ /\ ret' = TRUE /\ k \notin Cached \ gone
                 /\ mSet' = [Lru!Without(mSet, gone) EXCEPT ![k] = p]
                 /\ Cached' = (Cached \ gone) \cup {k}
              \/ /\ ret' = FALSE /\ k \in Cached \ gone
                 /\ mSet' = Lru!Without(mSet, gone)
                 /\ Cached' = Cached \ gone
<1> DEFINE gone == IF Lru!Full THEN Lru!Oldest ELSE {}
<1>1. gone \in SUBSET Cached
  BY DEF Lru!Oldest, Cached
<1>2. removed' = {<<j, mSet[j]>> : j \in gone} /\ mListener' = TRUE
  BY DEF Lru!Put, Lru!Report
<1>3. removed' \in SUBSET (Key \X Piece)
  BY <1>1, <1>2 DEF Lru!TypeOK, Cached, Lru!Cached, Lru!CachedIn
<1>4. /\ Lru!Without(mSet, gone) \in [Key -> Piece \cup {NoPiece}]
      /\ \A j \in Key : Lru!Without(mSet, gone)[j] = IF j \in gone THEN NoPiece ELSE mSet[j]
      /\ Lru!CachedIn(Lru!Without(mSet, gone)) = Cached \ gone
  BY <1>1 DEF Lru!Without, Lru!TypeOK, Lru!CachedIn, Cached, Lru!Cached
<1>5. Lru!Drop(older, gone) \in SUBSET (Key \X Key)
  BY DEF Lru!Drop, Lru!TypeOK
<1>6. CASE ret' = FALSE /\ Lru!Without(mSet, gone)[k] # NoPiece
           /\ mSet' = Lru!Without(mSet, gone) /\ older' = Lru!Drop(older, gone)
  <2>1. k \in Cached \ gone /\ Cached' = Cached \ gone
    BY <1>1, <1>4, <1>6 DEF Cached, Lru!Cached, Lru!CachedIn
  <2>2. Lru!TypeOK'
    BY <1>2, <1>3, <1>4, <1>5, <1>6 DEF Lru!TypeOK
  <2>. QED  BY <1>1, <1>2, <1>6, <2>1, <2>2
<1>7. CASE ret' = TRUE /\ Lru!Without(mSet, gone)[k] = NoPiece
           /\ mSet' = [Lru!Without(mSet, gone) EXCEPT ![k] = p]
           /\ older' = Lru!MakeYoungest(Lru!Drop(older, gone), Cached \ gone, k)
  <2>1. k \notin Cached \ gone /\ Cached' = (Cached \ gone) \cup {k}
    BY <1>1, <1>4, <1>7, LayoutAssumption DEF Cached, Lru!Cached, Lru!CachedIn
  <2>2. older' \in SUBSET (Key \X Key)
    BY <1>5, <1>7 DEF Lru!MakeYoungest, Lru!Drop, Cached, Lru!Cached, Lru!CachedIn
  <2>3. Lru!TypeOK'
    BY <1>2, <1>3, <1>4, <1>7, <2>2 DEF Lru!TypeOK
  <2>. QED  BY <1>1, <1>2, <1>7, <2>1, <2>3
<1>. QED  BY <1>4, <1>6, <1>7 DEF Lru!Put

LEMMA ClearEffect ==
  ASSUME Lru!TypeOK, mListener = TRUE, Lru!Clear
  PROVE  /\ removed' = {<<j, mSet[j]>> : j \in Cached}
         /\ Lru!TypeOK' /\ mListener' = TRUE
         /\ Cached' = {}
<1>1. removed' = {<<j, mSet[j]>> : j \in Cached} /\ mListener' = TRUE /\ ret' = ret
  BY DEF Lru!Clear, Lru!RemoveKeys, Lru!Report, Cached
<1>2. mSet' \in [Key -> Piece \cup {NoPiece}] /\ Cached' = {}
  BY DEF Lru!Clear, Lru!RemoveKeys, Lru!Without, Cached, Lru!Cached, Lru!CachedIn, Lru!TypeOK
<1>3. older' \in SUBSET (Key \X Key)
  BY DEF Lru!Clear, Lru!RemoveKeys, Lru!Drop, Lru!TypeOK
<1>4. removed' \in SUBSET (Key \X Piece)
  BY <1>1 DEF Lru!TypeOK, Cached, Lru!Cached, Lru!CachedIn
<1>. QED  BY <1>1, <1>2, <1>3, <1>4 DEF Lru!TypeOK

LEMMA GetEffect ==
  ASSUME Lru!TypeOK, NEW k \in Key, Lru!Get(k)
  PROVE  Lru!TypeOK' /\ mSet' = mSet /\ mListener' = mListener /\ ret' = mSet[k] /\ Cached' = Cached
<1>1. Lru!MakeYoungest(older, Lru!Cached, k) \in SUBSET (Key \X Key)
  BY DEF Lru!TypeOK, Lru!MakeYoungest, Lru!Drop, Lru!Cached, Lru!CachedIn
<1>. QED  BY <1>1 DEF Lru!Get, Lru!TypeOK, Cached, Lru!Cached, Lru!CachedIn

LEMMA SetListenerEffect ==
  ASSUME Lru!TypeOK, Lru!SetListener(TRUE)
  PROVE  Lru!TypeOK' /\ mSet' = mSet /\ mListener' = TRUE /\ Cached' = Cached /\ removed' = {}
  BY DEF Lru!SetListener, Lru!TypeOK, Cached, Lru!Cached, Lru!CachedIn

(* The listener frees the pieces of the keys that are gone, and no others: *)
(* distinct keys have distinct pieces.                                     *)
LEMMA ListenerEffect ==
  ASSUME Inv, NEW gone \in SUBSET Cached, removed' = {<<j, mSet[j]>> : j \in gone}
  PROVE  /\ AfterListener(heap) \in [Piece -> Key \cup {NoKey}]
         /\ \A p \in Piece : AfterListener(heap)[p] =
               IF \E j \in gone : mSet[j] = p THEN NoKey ELSE heap[p]
         /\ \A j \in Cached \ gone : AfterListener(heap)[mSet[j]] = j
<1>1. gone \subseteq Key /\ heap \in [Piece -> Key \cup {NoKey}]
  BY DEF Inv, TypeOK, Cached, Lru!Cached, Lru!CachedIn
<1>2. \A p \in Piece : (\E k \in Key : <<k, p>> \in removed') <=> \E j \in gone : mSet[j] = p
  BY <1>1
<1>3. \A p \in Piece : AfterListener(heap)[p] =
         IF \E j \in gone : mSet[j] = p THEN NoKey ELSE heap[p]
  BY <1>2 DEF AfterListener
<1>4. AfterListener(heap) \in [Piece -> Key \cup {NoKey}]
  BY <1>1 DEF AfterListener
<1>5. ASSUME NEW j \in Cached \ gone
      PROVE  AfterListener(heap)[mSet[j]] = j
  <2>1. mSet[j] \in Piece
    BY DEF Inv, TypeOK, Lru!TypeOK, Cached, Lru!Cached, Lru!CachedIn
  <2>2. \A i \in gone : mSet[i] # mSet[j]
    BY DEF Inv, CachedAreAlive
  <2>. QED  BY <1>3, <2>1, <2>2 DEF Inv, CachedAreAlive
<1>. QED  BY <1>3, <1>4, <1>5

(* f is called for the first time in this call of getOrCreate. *)
LEMMA CallFEffect ==
  ASSUME TypeOK, NEW t \in Thread, served[t] = << >>, NEW k \in Key, CallF(t, k)
  PROVE  served' = [served EXCEPT ![t] = <<k>>] /\ served' \in [Thread -> Seq(Key)]
<1>1. Append(<< >>, k) = <<k>>
  OBVIOUS
<1>2. served' = [served EXCEPT ![t] = <<k>>]
  BY <1>1 DEF CallF
<1>3. <<k>> \in Seq(Key)
  OBVIOUS
<1>. QED  BY <1>2, <1>3 DEF TypeOK

(* A step that leaves the heap, the map and the inserting threads alone    *)
(* changes no ownership.                                                   *)
LEMMA OwnersKept ==
  ASSUME OneOwner, Cached' = Cached, mSet' = mSet, heap' = heap,
         \A u \in Thread : /\ pc'[u] = "insert" <=> pc[u] = "insert"
                           /\ pc[u] = "insert" => layout'[u] = layout[u]
  PROVE  OneOwner'
  BY DEF OneOwner

-----------------------------------------------------------------------------
LEMMA InitInv == Init => Inv
<1> SUFFICES ASSUME Init PROVE Inv
  OBVIOUS
<1>1. TypeOK
  <2>1. Lru!TypeOK
    BY DEF Init, Lru!Init, Lru!TypeOK
  <2>2. << >> \in Seq(Key) /\ 0 \in 0..MaxLost
    BY LayoutAssumption
  <2>. QED  BY <2>1, <2>2 DEF Init, TypeOK, Label
<1>2. Cached = {}
  BY DEF Init, Lru!Init, Cached, Lru!Cached, Lru!CachedIn
<1>3. Locals /\ Pieces /\ LockHeld /\ ListenerSet
  BY <1>2, LayoutAssumption DEF Init, Locals, Pieces, LockHeld, ListenerSet
<1>4. CachedAreAlive /\ OneOwner /\ LostOnlyByRace /\ OnlyCacheable
  BY <1>2 DEF Init, CachedAreAlive, OneOwner, LostOnlyByRace, OnlyCacheable
<1>. QED  BY <1>1, <1>3, <1>4 DEF Inv

LEMMA BeginInv ==
  ASSUME Inv, NEW t \in Thread, NEW k \in Key, Begin(t, k)
  PROVE  Inv'
<1>1. Lru!TypeOK' /\ mSet' = mSet /\ mListener' = TRUE /\ Cached' = Cached
  BY SetListenerEffect DEF Inv, TypeOK, Begin
<1>2. TypeOK'
  BY <1>1 DEF Inv, TypeOK, Begin, Goto, Label
<1>3. Locals' /\ Pieces' /\ LockHeld' /\ ListenerSet'
  BY <1>1 DEF Inv, TypeOK, Locals, Pieces, LockHeld, ListenerSet, Begin, Goto, Label
<1>4. CachedAreAlive' /\ OneOwner' /\ LostOnlyByRace' /\ OnlyCacheable'
  BY <1>1 DEF Inv, TypeOK, CachedAreAlive, OneOwner, LostOnlyByRace, OnlyCacheable, Begin, Goto, Label
<1>. QED  BY <1>2, <1>3, <1>4 DEF Inv

LEMMA BypassInv ==
  ASSUME Inv, NEW t \in Thread, Bypass(t)
  PROVE  Inv'
<1>1. Lru!TypeOK' /\ mSet' = mSet /\ mListener' = mListener /\ Cached' = Cached
  BY DEF Inv, TypeOK, Bypass, cacheVars, Lru!TypeOK, Cached, Lru!Cached, Lru!CachedIn
<1>2. key[t] \in Key /\ served' = [served EXCEPT ![t] = <<key[t]>>] /\ served' \in [Thread -> Seq(Key)]
  BY CallFEffect DEF Inv, Locals, Bypass
<1>3. TypeOK'
  BY <1>1, <1>2 DEF Inv, Locals, TypeOK, Bypass, Goto, Label
<1>4. Locals' /\ Pieces' /\ LockHeld' /\ ListenerSet'
  BY <1>1, <1>2 DEF Inv, TypeOK, Locals, Pieces, LockHeld, ListenerSet, Bypass, Goto, Label
<1>5. CachedAreAlive' /\ OneOwner' /\ LostOnlyByRace' /\ OnlyCacheable'
  BY <1>1 DEF Inv, TypeOK, CachedAreAlive, OneOwner, LostOnlyByRace, OnlyCacheable, Bypass, Goto, Label
<1>. QED  BY <1>3, <1>4, <1>5 DEF Inv

LEMMA HitInv ==
  ASSUME Inv, NEW t \in Thread, Hit(t)
  PROVE  Inv'
<1>1. key[t] \in Key
  BY DEF Hit, Inv, Locals, Cached, Lru!Cached, Lru!CachedIn
<1>2. Lru!TypeOK' /\ mSet' = mSet /\ mListener' = mListener /\ Cached' = Cached /\ ret' = mSet[key[t]]
  BY <1>1, GetEffect DEF Inv, TypeOK, Hit
<1>3. TypeOK'
  BY <1>1, <1>2 DEF Inv, TypeOK, Hit, Goto, Label, Lru!TypeOK
<1>4. Locals' /\ ListenerSet'
  BY <1>2 DEF Inv, TypeOK, Locals, ListenerSet, Hit, Goto, Label
<1>5. Pieces' /\ LockHeld'
  BY <1>2, LayoutAssumption DEF Inv, TypeOK, Pieces, LockHeld, Hit, Goto, Label, Unlocked
<1>6. CachedAreAlive' /\ LostOnlyByRace' /\ OnlyCacheable'
  BY <1>2 DEF Inv, TypeOK, CachedAreAlive, LostOnlyByRace, OnlyCacheable, Hit, Goto, Label
<1>7. OneOwner'
  BY <1>2, OwnersKept DEF Inv, TypeOK, Hit, Goto
<1>. QED  BY <1>3, <1>4, <1>5, <1>6, <1>7 DEF Inv

LEMMA ReadHitInv ==
  ASSUME Inv, NEW t \in Thread, ReadHit(t)
  PROVE  Inv' /\ served' = [served EXCEPT ![t] = <<key[t]>>]
<1>1. Lru!TypeOK' /\ mSet' = mSet /\ mListener' = mListener /\ Cached' = Cached
  BY DEF Inv, TypeOK, ReadHit, cacheVars, Lru!TypeOK, Cached, Lru!Cached, Lru!CachedIn
<1>2. heap[layout[t]] = key[t] /\ key[t] \in Key
  BY LayoutAssumption DEF Inv, Pieces, Locals, CachedAreAlive, ReadHit
<1>3. served' = [served EXCEPT ![t] = <<key[t]>>] /\ served' \in [Thread -> Seq(Key)]
  BY <1>2, CallFEffect DEF Inv, Locals, ReadHit
<1>4. TypeOK'
  BY <1>1, <1>2, <1>3 DEF Inv, TypeOK, ReadHit, Goto, Label
<1>5. Locals' /\ ListenerSet'
  BY <1>1, <1>2, <1>3 DEF Inv, TypeOK, Locals, ListenerSet, ReadHit, Goto, Label
<1>6. Pieces' /\ LockHeld'
  BY <1>1, LayoutAssumption DEF Inv, TypeOK, Pieces, LockHeld, ReadHit, Goto, Label
<1>7. CachedAreAlive' /\ LostOnlyByRace' /\ OnlyCacheable'
  BY <1>1 DEF Inv, TypeOK, CachedAreAlive, LostOnlyByRace, OnlyCacheable, ReadHit, Goto, Label
<1>8. OneOwner'
  BY <1>1, OwnersKept DEF Inv, TypeOK, ReadHit, Goto
<1>. QED  BY <1>3, <1>4, <1>5, <1>6, <1>7, <1>8 DEF Inv

LEMMA MissInv ==
  ASSUME Inv, NEW t \in Thread, Miss(t)
  PROVE  Inv'
<1>1. key[t] \in Key
  BY LayoutAssumption DEF Miss, Inv, Locals
<1>2. Lru!TypeOK' /\ mSet' = mSet /\ mListener' = mListener /\ Cached' = Cached
  BY <1>1, GetEffect DEF Inv, TypeOK, Miss
<1>3. TypeOK'
  BY <1>2 DEF Inv, TypeOK, Miss, Goto, Label
<1>4. Locals' /\ ListenerSet' /\ Pieces' /\ LockHeld'
  BY <1>2 DEF Inv, TypeOK, Locals, Pieces, LockHeld, ListenerSet, Miss, Goto, Label
<1>5. CachedAreAlive' /\ OneOwner' /\ LostOnlyByRace' /\ OnlyCacheable'
  BY <1>2 DEF Inv, TypeOK, CachedAreAlive, OneOwner, LostOnlyByRace, OnlyCacheable, Miss, Goto, Label
<1>. QED  BY <1>3, <1>4, <1>5 DEF Inv

LEMMA LayOutInv ==
  ASSUME Inv, NEW t \in Thread, LayOut(t)
  PROVE  Inv'
<1>1. Lru!TypeOK' /\ mSet' = mSet /\ mListener' = mListener /\ Cached' = Cached
  BY DEF Inv, TypeOK, LayOut, cacheVars, Lru!TypeOK, Cached, Lru!Cached, Lru!CachedIn
<1>2. /\ key[t] \in Cacheable /\ key[t] \in Key /\ pc[t] = "layout"
      /\ served' = [served EXCEPT ![t] = <<key[t]>>] /\ served' \in [Thread -> Seq(Key)]
  BY LayoutAssumption, CallFEffect DEF Inv, Locals, LayOut
<1>3. PICK p \in Piece : heap[p] = NoKey /\ heap' = [heap EXCEPT ![p] = key[t]]
                         /\ layout' = [layout EXCEPT ![t] = p]
  BY DEF LayOut
<1>4. pc' = [pc EXCEPT ![t] = "insert"] /\ UNCHANGED <<mMutex, key, raced, lost>>
  BY DEF LayOut, Goto
<1>5. \A k \in Cached : mSet[k] \in Piece /\ mSet[k] # p
  BY <1>3, LayoutAssumption DEF Inv, CachedAreAlive, TypeOK, Lru!TypeOK, Cached, Lru!Cached, Lru!CachedIn
<1>6. \A u \in Thread : pc[u] = "insert" => layout[u] \in Piece /\ layout[u] # p
  BY <1>3, LayoutAssumption DEF Inv, Pieces, Locals
<1>7. TypeOK'
  BY <1>1, <1>2, <1>3, <1>4 DEF Inv, TypeOK, Label
<1>8. Locals' /\ ListenerSet' /\ LockHeld'
  BY <1>1, <1>2, <1>4 DEF Inv, TypeOK, Locals, LockHeld, ListenerSet, Label
<1>9. Pieces'
  BY <1>1, <1>2, <1>3, <1>4, <1>6 DEF Inv, TypeOK, Pieces, Label
<1>10. CachedAreAlive'
  BY <1>1, <1>3, <1>5 DEF Inv, TypeOK, CachedAreAlive
<1>11. OneOwner'
  <2> DEFINE Entered(q) == /\ \E k \in Cached : mSet[k] = q
                           /\ \A u \in Thread : pc'[u] = "insert" => layout'[u] # q
             Held(q) == /\ \E u \in Thread : /\ pc'[u] = "insert" /\ layout'[u] = q
                                             /\ \A w \in Thread \ {u} : pc'[w] = "insert" => layout'[w] # q
                        /\ \A k \in Cached : mSet[k] # q
  <2>1. \A u \in Thread : /\ pc'[u] = "insert" <=> (u = t \/ pc[u] = "insert")
                          /\ layout'[u] = IF u = t THEN p ELSE layout[u]
    BY <1>3, <1>4 DEF Inv, TypeOK
  <2>2. Held(p)
    BY <2>1, <1>5, <1>6
  <2>3. ASSUME NEW q \in Piece, q # p, heap[q] # NoKey
        PROVE  Entered(q) \/ Held(q)
    <3>1. CASE /\ \E k \in Cached : mSet[k] = q
               /\ \A u \in Thread : pc[u] = "insert" => layout[u] # q
      BY <3>1, <2>1, <2>3
    <3>2. ASSUME NEW u \in Thread, pc[u] = "insert", layout[u] = q,
                 \A w \in Thread \ {u} : pc[w] = "insert" => layout[w] # q,
                 \A k \in Cached : mSet[k] # q
          PROVE  Held(q)
      BY <3>2, <2>1, <2>3, <1>2
    <3>. QED  BY <3>1, <3>2, <2>3 DEF Inv, OneOwner
  <2>4. ASSUME NEW q \in Piece, heap'[q] # NoKey
        PROVE  Entered(q) \/ Held(q)
    <3>1. CASE q = p
      BY <3>1, <2>2
    <3>2. CASE q # p
      <4>1. heap'[q] = heap[q]
        BY <3>2, <1>3 DEF Inv, TypeOK
      <4>. QED  BY <4>1, <3>2, <2>3, <2>4
    <3>. QED  BY <3>1, <3>2
  <2>. QED  BY <1>1, <2>4 DEF OneOwner
<1>12. LostOnlyByRace' /\ OnlyCacheable'
  BY <1>1, <1>2, <1>4 DEF Inv, TypeOK, LostOnlyByRace, OnlyCacheable
<1>. QED  BY <1>7, <1>8, <1>9, <1>10, <1>11, <1>12 DEF Inv

LEMMA InsertInv ==
  ASSUME Inv, NEW t \in Thread, Insert(t)
  PROVE  Inv'
<1> DEFINE freed == AfterListener(heap)
<1>1. /\ pc[t] = "insert" /\ mMutex = NoThread /\ mListener = TRUE
      /\ key[t] \in Cacheable /\ key[t] \in Key /\ layout[t] \in Piece /\ heap[layout[t]] = key[t]
      /\ heap[layout[t]] # NoKey
  BY LayoutAssumption DEF Inv, Insert, Unlocked, Locals, Pieces, ListenerSet
<1>2. PICK gone \in SUBSET Cached :
           /\ removed' = {<<j, mSet[j]>> : j \in gone}
           /\ Lru!TypeOK' /\ mListener' = TRUE
           /\ \/ /\ ret' = TRUE /\ key[t] \notin Cached \ gone
                 /\ mSet' = [Lru!Without(mSet, gone) EXCEPT ![key[t]] = layout[t]]
                 /\ Cached' = (Cached \ gone) \cup {key[t]}
              \/ /\ ret' = FALSE /\ key[t] \in Cached \ gone
                 /\ mSet' = Lru!Without(mSet, gone)
                 /\ Cached' = Cached \ gone
  BY <1>1, PutEffect DEF Inv, TypeOK, Insert
<1>3. /\ freed \in [Piece -> Key \cup {NoKey}]
      /\ \A p \in Piece : freed[p] = IF \E j \in gone : mSet[j] = p THEN NoKey ELSE heap[p]
      /\ \A j \in Cached \ gone : freed[mSet[j]] = j
  BY <1>2, ListenerEffect
<1>4. /\ \A k \in Cached : k \in Key /\ mSet[k] \in Piece /\ mSet[k] # layout[t]
      /\ \A u \in Thread \ {t} : pc[u] = "insert" => layout[u] # layout[t]
  BY <1>1 DEF Inv, OneOwner, TypeOK, Lru!TypeOK, Cached, Lru!Cached, Lru!CachedIn
<1>5. freed[layout[t]] = key[t]
  BY <1>1, <1>3, <1>4
<1>6. /\ layout' = [layout EXCEPT ![t] = NoPiece]
      /\ pc' = [pc EXCEPT ![t] = "return"]
      /\ UNCHANGED <<mMutex, key, served>>
  BY DEF Insert, Goto
<1>7. /\ lost' \in 0..MaxLost
      /\ raced' = (raced \cup {u \in Thread : key[u] = key[t] /\ pc[u] \in {"layout", "insert"}}) \ {t}
  BY LayoutAssumption DEF Insert, Inv, TypeOK
<1>8. heap' = IF ret' THEN freed ELSE [freed EXCEPT ![layout[t]] = NoKey]
  BY DEF Insert
<1>9. ASSUME NEW k \in Cached'
      PROVE  \/ ret' = TRUE /\ k = key[t] /\ mSet'[k] = layout[t]
             \/ k \in Cached \ gone /\ mSet'[k] = mSet[k] /\ mSet[k] \in Piece /\ mSet[k] # layout[t]
  <2>1. \A j \in Cached \ gone : Lru!Without(mSet, gone)[j] = mSet[j]
    BY <1>4 DEF Lru!Without
  <2>2. Lru!Without(mSet, gone) \in [Key -> Piece \cup {NoPiece}]
    BY DEF Lru!Without, Inv, TypeOK, Lru!TypeOK
  <2>3. CASE ret' = TRUE
    BY <2>1, <2>2, <2>3, <1>1, <1>2, <1>4
  <2>4. CASE ret' = FALSE
    BY <2>1, <2>4, <1>1, <1>2, <1>4
  <2>. QED  BY <2>3, <2>4, <1>2
<1>10. TypeOK'
  BY <1>1, <1>2, <1>3, <1>6, <1>7, <1>8 DEF Inv, TypeOK, Label
<1>11. Locals' /\ LockHeld' /\ ListenerSet'
  BY <1>1, <1>2, <1>6 DEF Inv, TypeOK, Locals, LockHeld, ListenerSet, Label
<1>12. CachedAreAlive'
  <2>1. ASSUME NEW k \in Cached'
        PROVE  heap'[mSet'[k]] = k
    <3>1. CASE ret' = TRUE /\ k = key[t] /\ mSet'[k] = layout[t]
      BY <3>1, <1>5, <1>8
    <3>2. CASE k \in Cached \ gone /\ mSet'[k] = mSet[k] /\ mSet[k] \in Piece /\ mSet[k] # layout[t]
      BY <3>2, <1>3, <1>8
    <3>. QED  BY <1>9, <3>1, <3>2
  <2>. QED  BY <2>1 DEF CachedAreAlive
<1>13. Pieces'
  <2>1. ASSUME NEW u \in Thread, pc'[u] = "hit"
        PROVE  FALSE
    BY <2>1, <1>1, <1>6, LayoutAssumption DEF Inv, LockHeld, TypeOK
  <2>2. ASSUME NEW u \in Thread, pc'[u] = "insert"
        PROVE  layout'[u] \in Piece /\ heap'[layout'[u]] = key'[u]
    <3>1. u # t /\ pc[u] = "insert" /\ layout'[u] = layout[u] /\ key'[u] = key[u]
      BY <2>2, <1>6 DEF Inv, TypeOK
    <3>2. layout[u] \in Piece /\ layout[u] # layout[t] /\ heap[layout[u]] = key[u] /\ key[u] # NoKey
      BY <3>1, <1>4, LayoutAssumption DEF Inv, Pieces, Locals
    <3>3. \A k \in Cached : mSet[k] # layout[u]
      BY <3>1, <3>2 DEF Inv, OneOwner
    <3>4. freed[layout[u]] = key[u]
      BY <3>2, <3>3, <1>3
    <3>. QED  BY <3>1, <3>2, <3>4, <1>3, <1>8
  <2>. QED  BY <2>1, <2>2 DEF Pieces
<1>14. OneOwner'
  <2>1. \A u \in Thread : /\ pc'[u] = "insert" <=> (u # t /\ pc[u] = "insert")
                          /\ pc'[u] = "insert" => layout'[u] = layout[u]
    BY <1>1, <1>6 DEF Inv, TypeOK
  <2>2. ASSUME NEW q \in Piece, heap'[q] # NoKey
        PROVE  \/ /\ \E k \in Cached' : mSet'[k] = q
                  /\ \A u \in Thread : pc'[u] = "insert" => layout'[u] # q
               \/ /\ \E u \in Thread : /\ pc'[u] = "insert" /\ layout'[u] = q
                                        /\ \A w \in Thread \ {u} : pc'[w] = "insert" => layout'[w] # q
                  /\ \A k \in Cached' : mSet'[k] # q
    <3>1. CASE q = layout[t]
      <4>1. ret' = TRUE /\ key[t] \in Cached'
        BY <3>1, <2>2, <1>2, <1>3, <1>8
      <4>2. mSet'[key[t]] = q
        BY <4>1, <3>1, <1>2, <1>9
      <4>3. \A u \in Thread : pc'[u] = "insert" => layout'[u] # q
        BY <2>1, <1>4, <3>1
      <4>. QED  BY <4>1, <4>2, <4>3
    <3>2. CASE q # layout[t]
      <4>1. heap[q] # NoKey /\ \A j \in gone : mSet[j] # q
        BY <3>2, <2>2, <1>3, <1>8
      <4>2. ASSUME NEW k \in Cached, mSet[k] = q,
                   \A u \in Thread : pc[u] = "insert" => layout[u] # q
            PROVE  /\ \E j \in Cached' : mSet'[j] = q
                   /\ \A u \in Thread : pc'[u] = "insert" => layout'[u] # q
        <5>1. k \in Cached \ gone /\ k \in Cached'
          BY <4>1, <4>2, <1>2
        <5>2. ~(ret' = TRUE /\ k = key[t])
          BY <5>1, <1>2
        <5>3. mSet'[k] = q
          BY <5>1, <5>2, <4>2, <1>9
        <5>. QED  BY <5>1, <5>3, <4>2, <2>1
      <4>3. ASSUME NEW u \in Thread, pc[u] = "insert", layout[u] = q,
                   \A w \in Thread \ {u} : pc[w] = "insert" => layout[w] # q,
                   \A k \in Cached : mSet[k] # q
            PROVE  /\ pc'[u] = "insert" /\ layout'[u] = q
                   /\ \A w \in Thread \ {u} : pc'[w] = "insert" => layout'[w] # q
                   /\ \A k \in Cached' : mSet'[k] # q
        <5>1. u # t
          BY <4>3, <3>2
        <5>2. pc'[u] = "insert" /\ layout'[u] = q
          BY <5>1, <4>3, <2>1
        <5>3. \A w \in Thread \ {u} : pc'[w] = "insert" => layout'[w] # q
          BY <4>3, <2>1
        <5>4. \A k \in Cached' : mSet'[k] # q
          BY <4>3, <3>2, <1>9
        <5>. QED  BY <5>2, <5>3, <5>4
      <4>. QED  BY <4>1, <4>2, <4>3 DEF Inv, OneOwner
    <3>. QED  BY <3>1, <3>2
  <2>. QED  BY <2>2 DEF OneOwner
<1>15. LostOnlyByRace'
  BY <1>1, <1>2, <1>6, <1>7 DEF Inv, TypeOK, LostOnlyByRace
<1>16. OnlyCacheable'
  BY <1>1, <1>2 DEF Inv, OnlyCacheable
<1>. QED  BY <1>10, <1>11, <1>12, <1>13, <1>14, <1>15, <1>16 DEF Inv

LEMMA ReturnInv ==
  ASSUME Inv, NEW t \in Thread, Return(t)
  PROVE  Inv'
<1>1. Lru!TypeOK' /\ mSet' = mSet /\ mListener' = mListener /\ Cached' = Cached
  BY DEF Inv, TypeOK, Return, cacheVars, Lru!TypeOK, Cached, Lru!Cached, Lru!CachedIn
<1>2. served' = [served EXCEPT ![t] = << >>] /\ served' \in [Thread -> Seq(Key)]
  <2>1. << >> \in Seq(Key)
    OBVIOUS
  <2>. QED  BY <2>1 DEF Return, Inv, TypeOK
<1>3. TypeOK'
  BY <1>1, <1>2 DEF Inv, TypeOK, Return, Goto, Label
<1>4. Locals' /\ Pieces' /\ LockHeld' /\ ListenerSet'
  BY <1>1, <1>2 DEF Inv, TypeOK, Locals, Pieces, LockHeld, ListenerSet, Return, Goto, Label
<1>5. CachedAreAlive' /\ LostOnlyByRace' /\ OnlyCacheable'
  BY <1>1 DEF Inv, TypeOK, CachedAreAlive, LostOnlyByRace, OnlyCacheable, Return, Goto, Label
<1>6. OneOwner'
  BY <1>1, OwnersKept DEF Inv, TypeOK, Return, Goto
<1>. QED  BY <1>3, <1>4, <1>5, <1>6 DEF Inv

LEMMA PurgeInv ==
  ASSUME Inv, NEW t \in Thread, Purge(t)
  PROVE  Inv'
<1>1. /\ pc[t] = "idle" /\ mMutex = NoThread /\ heap' = AfterListener(heap)
      /\ UNCHANGED <<mMutex, pc, key, layout, served, raced, lost>>
  BY DEF Purge, Unlocked
<1>2. CASE mListener = TRUE
  <2>1. /\ removed' = {<<j, mSet[j]>> : j \in Cached}
        /\ Lru!TypeOK' /\ mListener' = TRUE /\ Cached' = {}
    BY <1>2, ClearEffect DEF Inv, TypeOK, Purge
  <2>2. /\ heap' \in [Piece -> Key \cup {NoKey}]
        /\ \A p \in Piece : heap'[p] = IF \E j \in Cached : mSet[j] = p THEN NoKey ELSE heap[p]
    BY <1>1, <2>1, ListenerEffect
  <2>3. TypeOK' /\ Locals' /\ LockHeld' /\ ListenerSet'
    BY <1>1, <2>1, <2>2 DEF Inv, TypeOK, Locals, LockHeld, ListenerSet
  <2>4. Pieces'
    <3>1. ASSUME NEW u \in Thread
          PROVE  /\ pc[u] # "hit"
                 /\ pc[u] = "insert" => layout[u] \in Piece /\ heap'[layout[u]] = key[u]
      <4>1. pc[u] # "hit"
        BY <1>1, LayoutAssumption DEF Inv, LockHeld
      <4>2. ASSUME pc[u] = "insert"
            PROVE  layout[u] \in Piece /\ heap'[layout[u]] = key[u]
        <5>1. layout[u] \in Piece /\ heap[layout[u]] = key[u] /\ key[u] # NoKey
          BY <4>2, LayoutAssumption DEF Inv, Pieces, Locals
        <5>2. \A k \in Cached : mSet[k] # layout[u]
          BY <5>1, <4>2 DEF Inv, OneOwner
        <5>. QED  BY <5>1, <5>2, <2>2
      <4>. QED  BY <4>1, <4>2
    <3>. QED  BY <3>1, <1>1 DEF Pieces
  <2>5. OneOwner'
    <3>1. ASSUME NEW q \in Piece, heap'[q] # NoKey
          PROVE  /\ heap[q] # NoKey
                 /\ \A k \in Cached : mSet[k] # q
      BY <3>1, <2>2
    <3>. QED  BY <3>1, <1>1, <2>1 DEF Inv, OneOwner
  <2>6. CachedAreAlive' /\ LostOnlyByRace' /\ OnlyCacheable'
    BY <1>1, <2>1 DEF CachedAreAlive, LostOnlyByRace, OnlyCacheable
  <2>. QED  BY <2>3, <2>4, <2>5, <2>6 DEF Inv
<1>3. CASE mListener # TRUE
  <2>1. /\ Lru!TypeOK' /\ mSet' = mSet /\ mListener' = TRUE /\ Cached' = Cached /\ removed' = {}
    BY <1>3, SetListenerEffect DEF Inv, TypeOK, Purge, Lru!TypeOK
  <2>2. heap' = heap
    BY <1>1, <2>1 DEF AfterListener, Inv, TypeOK
  <2>3. TypeOK' /\ Locals' /\ Pieces' /\ LockHeld' /\ ListenerSet'
    BY <1>1, <2>1, <2>2 DEF Inv, TypeOK, Locals, Pieces, LockHeld, ListenerSet
  <2>4. CachedAreAlive' /\ OneOwner' /\ LostOnlyByRace' /\ OnlyCacheable'
    BY <1>1, <2>1, <2>2 DEF Inv, CachedAreAlive, OneOwner, LostOnlyByRace, OnlyCacheable
  <2>. QED  BY <2>3, <2>4 DEF Inv
<1>. QED  BY <1>2, <1>3

LEMMA StutterInv ==
  ASSUME Inv, UNCHANGED vars
  PROVE  Inv'
<1>1. UNCHANGED <<mSet, older, mListener, removed, ret>> /\ Cached' = Cached
  BY DEF vars, cacheVars, Cached, Lru!Cached, Lru!CachedIn
<1>2. TypeOK' /\ Locals' /\ Pieces' /\ LockHeld' /\ ListenerSet'
  BY <1>1 DEF Inv, vars, TypeOK, Lru!TypeOK, Locals, Pieces, LockHeld, ListenerSet
<1>3. CachedAreAlive' /\ OneOwner' /\ LostOnlyByRace' /\ OnlyCacheable'
  BY <1>1 DEF Inv, vars, CachedAreAlive, OneOwner, LostOnlyByRace, OnlyCacheable
<1>. QED  BY <1>2, <1>3 DEF Inv

LEMMA NextInv == Inv /\ [Next]_vars => Inv'
  BY BeginInv, BypassInv, HitInv, ReadHitInv, MissInv, LayOutInv, InsertInv, ReturnInv, PurgeInv,
     StutterInv DEF Next, NewWork, Proceed

THEOREM CacheInv == Spec => []Inv
  BY InitInv, NextInv, PTL DEF Spec

(* The entries of the cache point to live layouts of their own text, and   *)
(* the layout f reads during a hit is alive and the one asked for.         *)
THEOREM NoDanglingLayout == Spec => []LayoutsAreAlive
<1>1. Inv => LayoutsAreAlive
  BY DEF Inv, Pieces, CachedAreAlive, HitIsAlive, LayoutsAreAlive
<1>. QED  BY <1>1, CacheInv, PTL

(* Every allocated layout that was not lost has exactly one owner that     *)
(* will delete it: the cache, or one thread about to insert it.            *)
THEOREM EachHasOneOwner == Spec => []OneOwner
  BY CacheInv, PTL DEF Inv

(* Only a thread whose text another thread laid out meanwhile can lose a   *)
(* layout to a refused put.                                                *)
THEOREM LossNeedsRace == Spec => []LostOnlyByRace
  BY CacheInv, PTL DEF Inv

-----------------------------------------------------------------------------
(* Every call of getOrCreate calls f exactly once, with the layout that    *)
(* was asked for: LayoutCache implements LayoutService.                    *)
THEOREM ServiceKept == Spec => KeepsService
<1>1. Init => Service!Init
  BY DEF Init, Service!Init
<1>2. Inv /\ [Next]_vars => [Service!Next]_Service!vars
  <2> SUFFICES ASSUME Inv, [Next]_vars PROVE [Service!Next]_Service!vars
    OBVIOUS
  <2> USE DEF Service!Next, Service!vars
  <2>1. ASSUME NEW t \in Thread, NEW k \in Key, Begin(t, k) PROVE Service!Call(t, k)
    BY <2>1 DEF Begin, Service!Call, Inv, Locals
  <2>2. ASSUME NEW t \in Thread, Bypass(t) PROVE Service!Serve(t)
    BY <2>2, CallFEffect, LayoutAssumption DEF Bypass, Service!Serve, Inv, Locals
  <2>3. ASSUME NEW t \in Thread, ReadHit(t) PROVE Service!Serve(t)
    BY <2>3, ReadHitInv, LayoutAssumption DEF ReadHit, Service!Serve, Inv, Locals
  <2>4. ASSUME NEW t \in Thread, LayOut(t) PROVE Service!Serve(t)
    BY <2>4, CallFEffect, LayoutAssumption DEF LayOut, Service!Serve, Inv, Locals
  <2>5. ASSUME NEW t \in Thread, Return(t) PROVE Service!Return(t)
    BY <2>5, LayoutAssumption DEF Return, Service!Return, Inv, Locals
  <2>6. ASSUME NEW t \in Thread, Hit(t) \/ Miss(t) \/ Insert(t) \/ Purge(t)
        PROVE  UNCHANGED Service!vars
    BY <2>6 DEF Hit, Miss, Insert, Purge
  <2>7. CASE UNCHANGED vars
    BY <2>7 DEF vars
  <2>. QED  BY <2>1, <2>2, <2>3, <2>4, <2>5, <2>6, <2>7 DEF Next, NewWork, Proceed
<1>. QED  BY <1>1, <1>2, CacheInv, PTL DEF Spec, KeepsService, Service!Spec

(* By its definition, every step is one operation of the LRU map or leaves *)
(* it alone, so that the theorems of the map hold of mCache.               *)
LEMMA CacheIsMap == Spec => Lru!Spec
<1>1. Init => Lru!Init
  BY DEF Init
<1>2. Inv /\ [Next]_vars => [Lru!Next]_Lru!vars
  <2> SUFFICES ASSUME Inv, [Next]_vars PROVE Lru!Next \/ UNCHANGED Lru!vars
    OBVIOUS
  <2>1. ASSUME NEW t \in Thread, NEW k \in Key, Begin(t, k) PROVE Lru!Next
    BY <2>1 DEF Begin, Lru!Next
  <2>2. ASSUME NEW t \in Thread, Hit(t) \/ Miss(t) PROVE Lru!Next
    BY <2>2, LayoutAssumption DEF Hit, Miss, Lru!Next, Inv, Locals
  <2>3. ASSUME NEW t \in Thread, Insert(t) PROVE Lru!Next
    BY <2>3, LayoutAssumption DEF Insert, Lru!Next, Inv, Locals, Pieces
  <2>4. ASSUME NEW t \in Thread, Purge(t) PROVE Lru!Next
    BY <2>4 DEF Purge, Lru!Next
  <2>5. ASSUME NEW t \in Thread, Bypass(t) \/ ReadHit(t) \/ LayOut(t) \/ Return(t)
        PROVE  UNCHANGED Lru!vars
    BY <2>5 DEF Bypass, ReadHit, LayOut, Return, cacheVars, Lru!vars
  <2>6. CASE UNCHANGED vars
    BY <2>6 DEF vars, cacheVars, Lru!vars
  <2>. QED  BY <2>1, <2>2, <2>3, <2>4, <2>5, <2>6 DEF Next, NewWork, Proceed
<1>. QED  BY <1>1, <1>2, CacheInv, PTL DEF Spec, Lru!Spec

(* The theorems of the LRU map, for a map of pieces.                       *)
Map == INSTANCE LruCacheSpecProofs WITH Value <- Piece, NoValue <- NoPiece, MaxCapacity <- kMaxEntries

(* However many threads insert at once, the cache never keeps more than    *)
(* kMaxEntries layouts.                                                    *)
LEMMA EntriesBounded == Spec => []Map!WithinCapacity
<1>1. Spec => Map!Spec
  <2>1. Init => Map!Init
    BY DEF Init, Lru!Init, Map!Init
  <2>2. [Lru!Next]_Lru!vars => [Map!Next]_Map!vars
    <3>1. \A k \in Key : (Lru!Get(k) <=> Map!Get(k)) /\ (Lru!Remove(k) <=> Map!Remove(k))
      BY DEF Lru!Get, Map!Get, Lru!Remove, Map!Remove, Lru!RemoveKeys, Map!RemoveKeys, Lru!Report, Map!Report,
             Lru!Cached, Map!Cached, Lru!CachedIn, Map!CachedIn, Lru!Without, Map!Without,
             Lru!Drop, Map!Drop, Lru!MakeYoungest, Map!MakeYoungest
    <3>2. Lru!Oldest = Map!Oldest /\ Lru!Cached = Map!Cached
      BY DEF Lru!Oldest, Map!Oldest, Lru!IsOldest, Map!IsOldest,
             Lru!Cached, Map!Cached, Lru!CachedIn, Map!CachedIn
    <3>3. Lru!Full = Map!Full
      BY <3>2 DEF Lru!Full, Map!Full, Lru!kUnlimitedCapacity, Map!kUnlimitedCapacity,
             Lru!Cardinality, Map!Cardinality
    <3>4. \A k \in Key, p \in Piece : Lru!Put(k, p) <=> Map!Put(k, p)
      BY <3>2, <3>3 DEF Lru!Put, Map!Put, Lru!Report, Map!Report, Lru!CachedIn, Map!CachedIn,
             Lru!Without, Map!Without, Lru!Drop, Map!Drop, Lru!MakeYoungest, Map!MakeYoungest
    <3>5. (Lru!RemoveOldest <=> Map!RemoveOldest) /\ (Lru!Clear <=> Map!Clear)
          /\ (Lru!PeekOldestValue <=> Map!PeekOldestValue)
      BY <3>2 DEF Lru!RemoveOldest, Map!RemoveOldest, Lru!Clear, Map!Clear,
             Lru!PeekOldestValue, Map!PeekOldestValue, Lru!RemoveKeys, Map!RemoveKeys,
             Lru!Report, Map!Report, Lru!Without, Map!Without, Lru!Drop, Map!Drop
    <3>6. \A on \in BOOLEAN : Lru!SetListener(on) <=> Map!SetListener(on)
      BY DEF Lru!SetListener, Map!SetListener
    <3>. QED  BY <3>1, <3>4, <3>5, <3>6 DEF Lru!Next, Map!Next, Lru!vars, Map!vars
  <2>. QED  BY <2>1, <2>2, CacheIsMap, PTL DEF Spec, Lru!Spec, Map!Spec
<1>2. Map!LruAssumption
  BY LayoutAssumption DEF Map!LruAssumption
<1>. QED  BY <1>1, <1>2, Map!CapacityKept, PTL

(* The values a function has on a finite set are no more than its elements.*)
LEMMA ImageIsSmall ==
  ASSUME NEW f, NEW S, IsFiniteSet(S)
  PROVE  /\ IsFiniteSet({f[x] : x \in S})
         /\ Cardinality({f[x] : x \in S}) <= Cardinality(S)
<1> DEFINE g == [x \in S |-> f[x]]
           T == {f[x] : x \in S}
<1>1. g \in Surjection(S, T)
  BY DEF Surjection
<1> HIDE DEF g, T
<1>2. IsFiniteSet(T) /\ Cardinality(T) <= Cardinality(S)
  BY <1>1, FS_Surjection
<1>. QED  BY <1>2 DEF T

(* Each allocated layout is that of an entry or of a thread about to       *)
(* insert it, so both together bound their number.                         *)
LEMMA OwnersBoundLayouts ==
  ASSUME Inv, Map!WithinCapacity
  PROVE  LayoutsAreBounded
<1> SUFFICES ASSUME kMaxEntries # Lru!kUnlimitedCapacity
             PROVE  Cardinality(Allocated) <= kMaxEntries + Cardinality(Inserting)
  BY DEF LayoutsAreBounded
<1> DEFINE Entries == {mSet[k] : k \in Cached}
           Held == {layout[t] : t \in Inserting}
<1>1. Allocated \subseteq Entries \cup Held
  BY DEF Allocated, Inserting, Inv, OneOwner
<1>2. IsFiniteSet(Cached) /\ Cardinality(Cached) <= kMaxEntries
  <2>1. Map!Cached = Cached
    BY DEF Map!Cached, Map!CachedIn, Cached, Lru!Cached, Lru!CachedIn
  <2>2. \A s : (Map!IsFiniteSet(s) <=> IsFiniteSet(s)) /\ Map!Cardinality(s) = Cardinality(s)
    BY DEF Map!IsFiniteSet, IsFiniteSet, Map!Cardinality, Cardinality
  <2>. QED  BY <2>1, <2>2 DEF Map!WithinCapacity, Map!kUnlimitedCapacity, Lru!kUnlimitedCapacity
<1>3. IsFiniteSet(Inserting)
  BY LayoutAssumption, FS_Subset DEF Inserting
<1>4. IsFiniteSet(Entries) /\ Cardinality(Entries) <= Cardinality(Cached)
  BY <1>2, ImageIsSmall
<1>5. IsFiniteSet(Held) /\ Cardinality(Held) <= Cardinality(Inserting)
  BY <1>3, ImageIsSmall
<1> HIDE DEF Entries, Held
<1>6. /\ IsFiniteSet(Entries \cup Held)
      /\ Cardinality(Entries \cup Held) <= Cardinality(Entries) + Cardinality(Held)
  <2>1. /\ IsFiniteSet(Entries \cup Held) /\ IsFiniteSet(Entries \cap Held)
        /\ Cardinality(Entries \cup Held)
             = Cardinality(Entries) + Cardinality(Held) - Cardinality(Entries \cap Held)
    BY <1>4, <1>5, FS_Union, FS_Intersection
  <2>2. Cardinality(Entries \cap Held) \in Nat /\ Cardinality(Entries) \in Nat /\ Cardinality(Held) \in Nat
    BY <2>1, <1>4, <1>5, FS_CardinalityType
  <2>. QED  BY <2>1, <2>2
<1>7. IsFiniteSet(Allocated) /\ Cardinality(Allocated) <= Cardinality(Entries \cup Held)
  BY <1>1, <1>6, FS_Subset
<1>8. /\ Cardinality(Allocated) \in Nat /\ Cardinality(Entries \cup Held) \in Nat
      /\ Cardinality(Entries) \in Nat /\ Cardinality(Held) \in Nat
      /\ Cardinality(Cached) \in Nat /\ Cardinality(Inserting) \in Nat /\ kMaxEntries \in Nat
  BY <1>2, <1>3, <1>4, <1>5, <1>6, <1>7, FS_CardinalityType, LayoutAssumption
<1>. QED  BY <1>2, <1>4, <1>5, <1>6, <1>7, <1>8

(* The layouts in memory, but for lost ones, never outnumber the entries a *)
(* full cache has and the threads about to insert one: whoever evicts,     *)
(* purges or is refused leaves none behind.                                *)
THEOREM LayoutsBounded == Spec => []LayoutsAreBounded
<1>1. Inv /\ Map!WithinCapacity => LayoutsAreBounded
  BY OwnersBoundLayouts
<1>. QED  BY <1>1, CacheInv, EntriesBounded, PTL

=============================================================================
