------------------------ MODULE LineBreakerPoolProofs ------------------------
(***************************************************************************)
(* Break iterators that travel between threads, for any number of word     *)
(* breakers, locales, texts and any size of the pool.  The properties      *)
(* speak of places; the invariant says the same of the three kinds of      *)
(* places, adds what the slot of a word breaker holds at each point of its *)
(* use (Following), and is inductive as a whole: a pooled iterator is      *)
(* right for its next holder only because nobody else holds it.            *)
(***************************************************************************)
EXTENDS LineBreakerPool, SequenceTheorems, TLAPS

FullSlot == [localeId : LocaleId, breaker : Breaker]
Pooled(i) == mPool[i].breaker
Held(w)   == mIcuBreaker[w].breaker
Got(w)    == acquired[w].breaker

Apart ==
  /\ \A i, j \in DOMAIN mPool : Pooled(i) = Pooled(j) => i = j
  /\ \A v, w \in WordBreaker : Held(v) = Held(w) /\ Held(v) # NoBreaker => v = w
  /\ \A v, w \in WordBreaker : Got(v) = Got(w) /\ Got(v) # NoBreaker => v = w
  /\ \A i \in DOMAIN mPool, w \in WordBreaker : Pooled(i) # Held(w) /\ Pooled(i) # Got(w)
  /\ \A v, w \in WordBreaker : Held(v) = Got(w) => Held(v) = NoBreaker

OpenForLocale ==
  /\ \A i \in DOMAIN mPool : opened[Pooled(i)] = mPool[i].localeId
  /\ \A w \in WordBreaker : Held(w) # NoBreaker => opened[Held(w)] = mIcuBreaker[w].localeId
  /\ \A w \in WordBreaker : Got(w) # NoBreaker => opened[Got(w)] = acquired[w].localeId

Following ==
  \A w \in WordBreaker :
    /\ pc[w] = "breaking" => Held(w) # NoBreaker /\ mIcuBreaker[w].localeId = locale[w]
    /\ pc[w] = "acquired" => Got(w) # NoBreaker /\ acquired[w].localeId = locale[w]
    /\ pc[w] # "acquired" => acquired[w] = EmptySlot

Kept ==
  /\ \A b \in Breaker : opened[b] # NoLocale =>
       \/ \E i \in DOMAIN mPool : Pooled(i) = b
       \/ \E w \in WordBreaker : Held(w) = b \/ Got(w) = b
  /\ Len(mPool) <= MAX_POOL_SIZE

Reading ==
  \A w \in WordBreaker :
    /\ pc[w] # "constructed" => mText[w] # NoText
    /\ pc[w] = "breaking" => reads[Held(w)] = mText[w]

Inv == TypeOK /\ Apart /\ OpenForLocale /\ Following /\ Kept /\ Reading

-----------------------------------------------------------------------------
(* Sequences: what erasing a slot and pushing one to the front do.         *)
LEMMA Erased ==
  ASSUME NEW T, NEW s \in Seq(T), NEW i \in 1..Len(s)
  PROVE  /\ S!RemoveAt(s, i) \in Seq(T)
         /\ Len(S!RemoveAt(s, i)) = Len(s) - 1
         /\ \A j \in 1..Len(s) - 1 : S!RemoveAt(s, i)[j] = IF j < i THEN s[j] ELSE s[j + 1]
<1> DEFINE a == SubSeq(s, 1, i - 1)
           b == SubSeq(s, i + 1, Len(s))
<1>1. /\ a \in Seq(T) /\ Len(a) = i - 1 /\ \A j \in 1..i - 1 : a[j] = s[j]
      /\ b \in Seq(T) /\ Len(b) = Len(s) - i /\ \A j \in 1..Len(s) - i : b[j] = s[i + j]
  <2>1. /\ Len(s) \in Nat /\ i \in Int /\ i >= 1 /\ i <= Len(s)
        /\ \A j \in 1..Len(s) : s[j] \in T
    OBVIOUS
  <2>2. /\ a \in Seq(T) /\ Len(a) = IF 1 <= i - 1 THEN (i - 1) - 1 + 1 ELSE 0
        /\ \A j \in 1..(i - 1) - 1 + 1 : a[j] = s[1 + j - 1]
    BY <2>1, SubSeqProperties
  <2>3. /\ b \in Seq(T) /\ Len(b) = IF i + 1 <= Len(s) THEN Len(s) - (i + 1) + 1 ELSE 0
        /\ \A j \in 1..Len(s) - (i + 1) + 1 : b[j] = s[(i + 1) + j - 1]
    BY <2>1, SubSeqProperties
  <2>4. ASSUME NEW j \in 1..i - 1 PROVE a[j] = s[j]
    <3>1. j \in 1..(i - 1) - 1 + 1 /\ 1 + j - 1 = j
      BY <2>1
    <3>. QED  BY <3>1, <2>2
  <2>5. ASSUME NEW j \in 1..Len(s) - i PROVE b[j] = s[i + j]
    <3>1. j \in 1..Len(s) - (i + 1) + 1 /\ (i + 1) + j - 1 = i + j
      BY <2>1
    <3>. QED  BY <3>1, <2>3
  <2>6. Len(a) = i - 1 /\ Len(b) = Len(s) - i
    BY <2>1, <2>2, <2>3
  <2>. QED  BY <2>2, <2>3, <2>4, <2>5, <2>6
<1>2. S!RemoveAt(s, i) = a \o b
  BY DEF S!RemoveAt
<1> HIDE DEF a, b
<1>3. /\ a \o b \in Seq(T) /\ Len(a \o b) = Len(a) + Len(b)
      /\ \A j \in 1..Len(a) + Len(b) : (a \o b)[j] = IF j <= Len(a) THEN a[j] ELSE b[j - Len(a)]
  BY <1>1, ConcatProperties
<1>4. ASSUME NEW j \in 1..Len(s) - 1
      PROVE  (a \o b)[j] = IF j < i THEN s[j] ELSE s[j + 1]
  <2>1. CASE j < i
    BY <2>1, <1>1, <1>3
  <2>2. CASE j >= i
    <3>1. j - Len(a) \in 1..Len(s) - i /\ i + (j - Len(a)) = j + 1
      BY <2>2, <1>1
    <3>. QED  BY <3>1, <2>2, <1>1, <1>3
  <2>3. j < i \/ j >= i
    OBVIOUS
  <2>. QED  BY <2>1, <2>2, <2>3
<1>5. Len(a) + Len(b) = Len(s) - 1
  BY <1>1
<1>. QED  BY <1>2, <1>3, <1>4, <1>5

LEMMA Pushed ==
  ASSUME NEW T, NEW s \in Seq(T), NEW x \in T
  PROVE  /\ <<x>> \o s \in Seq(T)
         /\ Len(<<x>> \o s) = Len(s) + 1
         /\ (<<x>> \o s)[1] = x
         /\ \A j \in 1..Len(s) : (<<x>> \o s)[j + 1] = s[j]
  OBVIOUS

LEMMA SlotTypes ==
  ASSUME TypeOK
  PROVE  /\ mPool \in Seq(FullSlot) /\ DOMAIN mPool = 1..Len(mPool) /\ Len(mPool) \in Nat
         /\ \A i \in DOMAIN mPool : mPool[i] \in FullSlot /\ Pooled(i) \in Breaker
                                    /\ Pooled(i) # NoBreaker
         /\ \A w \in WordBreaker : Held(w) \in Breaker \cup {NoBreaker}
         /\ \A w \in WordBreaker : Got(w) \in Breaker \cup {NoBreaker}
         /\ \A w \in WordBreaker : Held(w) # NoBreaker => mIcuBreaker[w] \in FullSlot
         /\ \A w \in WordBreaker : Got(w) # NoBreaker => acquired[w] \in FullSlot
         /\ FullSlot \cap {EmptySlot} = {}
         /\ EmptySlot.breaker = NoBreaker /\ EmptySlot.localeId = NoLocale
<1>1. /\ mPool \in Seq(FullSlot) /\ DOMAIN mPool = 1..Len(mPool) /\ Len(mPool) \in Nat
  BY DEF TypeOK, FullSlot
<1>2. EmptySlot.breaker = NoBreaker /\ EmptySlot.localeId = NoLocale
  BY DEF EmptySlot, Slot
<1>3. \A s \in FullSlot : s.breaker \in Breaker /\ s.breaker # NoBreaker
  BY PoolAssumption DEF FullSlot
<1>4. \A w \in WordBreaker : /\ mIcuBreaker[w] \in FullSlot \cup {EmptySlot}
                             /\ acquired[w] \in FullSlot \cup {EmptySlot}
  BY DEF TypeOK, FullSlot
<1>5. \A i \in DOMAIN mPool : mPool[i] \in FullSlot
  BY <1>1
<1>. QED  BY <1>1, <1>2, <1>3, <1>4, <1>5 DEF Pooled, Held, Got

LEMMA InitInv == Init => Inv
<1> SUFFICES ASSUME Init PROVE Inv
  OBVIOUS
<1>1. TypeOK
  BY DEF Init, TypeOK, EmptySlot, Slot, Label
<1>2. Apart /\ OpenForLocale /\ Following /\ Kept /\ Reading
  BY PoolAssumption DEF Init, Apart, OpenForLocale, Following, Kept, Reading, Pooled, Held, Got,
     EmptySlot, Slot
<1>. QED  BY <1>1, <1>2 DEF Inv

-----------------------------------------------------------------------------
LEMMA SetTextInv ==
  ASSUME Inv, NEW w \in WordBreaker, NEW text \in Text, SetText(w, text)
  PROVE  Inv'
<1>1. TypeOK'
  BY DEF Inv, TypeOK, SetText, Goto, Label
<1>2. Apart' /\ OpenForLocale' /\ Kept'
  BY DEF Inv, SetText, Apart, OpenForLocale, Kept, Pooled, Held, Got
<1>3. /\ pc' = [pc EXCEPT ![w] = "hasText"] /\ pc \in [WordBreaker -> Label]
      /\ mText' = [mText EXCEPT ![w] = text] /\ mText \in [WordBreaker -> Text \cup {NoText}]
      /\ pc[w] = "constructed" /\ text # NoText
  BY PoolAssumption DEF Inv, TypeOK, SetText, Goto
<1>4. Following'
  BY <1>3 DEF Inv, SetText, Following, Held, Got
<1>5. Reading'
  BY <1>3 DEF Inv, SetText, Reading, Held
<1>. QED  BY <1>1, <1>2, <1>4, <1>5 DEF Inv

(* Where acquire finds a slot of the locale, the slot moves from the pool  *)
(* to the caller.                                                          *)
LEMMA AcquirePooledInv ==
  ASSUME Inv, NEW w \in WordBreaker, NEW l \in LocaleId, Acquire(w, l), AcquirePooled(w, l)
  PROVE  Inv'
<1>0. PICK i \in FirstFor(l) : /\ acquired' = [acquired EXCEPT ![w] = mPool[i]]
                               /\ mPool' = S!RemoveAt(mPool, i)
  BY DEF AcquirePooled
<1>1. /\ mPool \in Seq(FullSlot) /\ Len(mPool) \in Nat /\ DOMAIN mPool = 1..Len(mPool)
      /\ i \in 1..Len(mPool) /\ mPool[i].localeId = l
      /\ mPool[i] \in FullSlot /\ Pooled(i) # NoBreaker
  BY SlotTypes DEF FirstFor, Inv
<1>2. /\ mPool' \in Seq(FullSlot) /\ Len(mPool') = Len(mPool) - 1
      /\ DOMAIN mPool' = 1..Len(mPool) - 1
      /\ \A j \in DOMAIN mPool' : mPool'[j] = IF j < i THEN mPool[j] ELSE mPool[j + 1]
  <2>1. /\ mPool' \in Seq(FullSlot) /\ Len(mPool') = Len(mPool) - 1
        /\ \A j \in 1..Len(mPool) - 1 : mPool'[j] = IF j < i THEN mPool[j] ELSE mPool[j + 1]
    BY <1>0, <1>1, Erased
  <2>. QED  BY <2>1, <1>1
<1>3. \A j \in DOMAIN mPool' : \E k \in DOMAIN mPool \ {i} :
         mPool'[j] = mPool[k] /\ (k = j \/ k = j + 1) /\ (k = j => j < i) /\ (k = j + 1 => j >= i)
  BY <1>1, <1>2
<1>4. \A k \in DOMAIN mPool \ {i} : \E j \in DOMAIN mPool' : mPool'[j] = mPool[k]
  <2> SUFFICES ASSUME NEW k \in DOMAIN mPool \ {i}
               PROVE  \E j \in DOMAIN mPool' : mPool'[j] = mPool[k]
    OBVIOUS
  <2>1. CASE k < i
    BY <2>1, <1>1, <1>2
  <2>2. CASE k > i
    <3>1. k - 1 \in DOMAIN mPool' /\ ~(k - 1 < i) /\ (k - 1) + 1 = k
      BY <2>2, <1>1, <1>2
    <3>. QED  BY <3>1, <1>2
  <2>. QED  BY <2>1, <2>2, <1>1
<1>5. /\ pc[w] \in {"hasText", "breaking"} /\ pc' = [pc EXCEPT ![w] = "acquired"]
      /\ locale' = [locale EXCEPT ![w] = l]
      /\ UNCHANGED <<mIcuBreaker, mText, opened, reads>>
      /\ acquired[w] = EmptySlot
  BY DEF Acquire, AcquirePooled, Goto, Inv, Following
<1>6. /\ pc \in [WordBreaker -> Label] /\ locale \in [WordBreaker -> LocaleId \cup {NoLocale}]
      /\ acquired \in [WordBreaker -> FullSlot \cup {EmptySlot}]
  BY DEF Inv, TypeOK, FullSlot
<1>7. TypeOK'
  BY <1>0, <1>1, <1>2, <1>5, <1>6 DEF Inv, TypeOK, FullSlot, Label
<1>8. /\ Got(w)' = Pooled(i)
      /\ \A u \in WordBreaker : u # w => Got(u)' = Got(u) /\ acquired'[u] = acquired[u]
      /\ acquired'[w] = mPool[i]
      /\ \A u \in WordBreaker : Held(u)' = Held(u)
      /\ \A j \in DOMAIN mPool' : \E k \in DOMAIN mPool \ {i} : Pooled(j)' = Pooled(k)
  BY <1>0, <1>3, <1>5, <1>6 DEF Got, Held, Pooled
<1>9. Apart'
  <2>1. ASSUME NEW j \in DOMAIN mPool', NEW k \in DOMAIN mPool', Pooled(j)' = Pooled(k)'
        PROVE  j = k
    <3>1. PICK a \in DOMAIN mPool \ {i} :
             mPool'[j] = mPool[a] /\ (a = j \/ a = j + 1) /\ (a = j => j < i) /\ (a = j + 1 => j >= i)
      BY <1>3
    <3>2. PICK b \in DOMAIN mPool \ {i} :
             mPool'[k] = mPool[b] /\ (b = k \/ b = k + 1) /\ (b = k => k < i) /\ (b = k + 1 => k >= i)
      BY <1>3
    <3>3. a = b
      BY <3>1, <3>2, <2>1 DEF Inv, Apart, Pooled
    <3>. QED  BY <3>1, <3>2, <3>3, <1>1, <1>2
  <2>2. \A u, v \in WordBreaker : Got(u)' = Got(v)' /\ Got(u)' # NoBreaker => u = v
    BY <1>1, <1>8 DEF Inv, Apart
  <2>3. \A j \in DOMAIN mPool', u \in WordBreaker : Pooled(j)' # Held(u)' /\ Pooled(j)' # Got(u)'
    BY <1>1, <1>8 DEF Inv, Apart
  <2>4. \A u, v \in WordBreaker : Held(u)' = Got(v)' => Held(u)' = NoBreaker
    BY <1>1, <1>8 DEF Inv, Apart
  <2>5. \A u, v \in WordBreaker : Held(u)' = Held(v)' /\ Held(u)' # NoBreaker => u = v
    BY <1>8 DEF Inv, Apart
  <2>. QED  BY <2>1, <2>2, <2>3, <2>4, <2>5 DEF Apart
<1>10. OpenForLocale'
  <2>1. \A j \in DOMAIN mPool' : opened'[Pooled(j)'] = mPool'[j].localeId
    BY <1>3, <1>5 DEF Inv, OpenForLocale, Pooled
  <2>. QED  BY <2>1, <1>1, <1>5, <1>8 DEF Inv, OpenForLocale, Pooled
<1>11. Following'
  BY <1>1, <1>5, <1>6, <1>8 DEF Inv, Following, Held, Pooled
<1>12. Kept'
  <2>1. ASSUME NEW b \in Breaker, opened'[b] # NoLocale
        PROVE  \/ \E j \in DOMAIN mPool' : Pooled(j)' = b
               \/ \E u \in WordBreaker : Held(u)' = b \/ Got(u)' = b
    <3>1. CASE \E k \in DOMAIN mPool : Pooled(k) = b
      <4>1. PICK k \in DOMAIN mPool : Pooled(k) = b
        BY <3>1
      <4>2. CASE k = i
        BY <4>1, <4>2, <1>8
      <4>3. CASE k # i
        BY <4>1, <4>3, <1>4 DEF Pooled
      <4>. QED  BY <4>2, <4>3
    <3>2. CASE \E u \in WordBreaker : Held(u) = b
      BY <3>2, <1>8
    <3>3. CASE \E u \in WordBreaker : Got(u) = b
      <4>1. PICK u \in WordBreaker : Got(u) = b
        BY <3>3
      <4>2. u # w
        BY <4>1, <1>5, PoolAssumption DEF Got, EmptySlot, Slot
      <4>. QED  BY <4>1, <4>2, <1>8
    <3>. QED  BY <2>1, <1>5, <3>1, <3>2, <3>3 DEF Inv, Kept
  <2>2. Len(mPool') <= MAX_POOL_SIZE
    BY <1>1, <1>2, PoolAssumption DEF Inv, Kept
  <2>. QED  BY <2>1, <2>2 DEF Kept
<1>13. Reading'
  BY <1>5, <1>6, <1>8 DEF Inv, Reading
<1>. QED  BY <1>7, <1>9, <1>10, <1>11, <1>12, <1>13 DEF Inv

(* Otherwise a breaker is opened, at an address nobody holds.              *)
LEMMA AcquireNewInv ==
  ASSUME Inv, NEW w \in WordBreaker, NEW l \in LocaleId, Acquire(w, l), AcquireNew(w, l)
  PROVE  Inv'
<1>0. PICK b \in Breaker : /\ opened[b] = NoLocale
                           /\ acquired' = [acquired EXCEPT ![w] = Slot(l, b)]
                           /\ opened' = [opened EXCEPT ![b] = l]
  BY DEF AcquireNew
<1>1. /\ pc[w] \in {"hasText", "breaking"} /\ pc' = [pc EXCEPT ![w] = "acquired"]
      /\ locale' = [locale EXCEPT ![w] = l]
      /\ UNCHANGED <<mPool, mIcuBreaker, mText, reads>>
      /\ acquired[w] = EmptySlot
  BY DEF Acquire, AcquireNew, Goto, Inv, Following
<1>2. /\ pc \in [WordBreaker -> Label] /\ locale \in [WordBreaker -> LocaleId \cup {NoLocale}]
      /\ acquired \in [WordBreaker -> FullSlot \cup {EmptySlot}]
      /\ opened \in [Breaker -> LocaleId \cup {NoLocale}]
      /\ Slot(l, b) \in FullSlot /\ Slot(l, b).breaker = b /\ Slot(l, b).localeId = l
      /\ b # NoBreaker /\ l # NoLocale
  BY PoolAssumption DEF Inv, TypeOK, FullSlot, Slot
<1>3. TypeOK'
  BY <1>0, <1>1, <1>2 DEF Inv, TypeOK, FullSlot, Label
<1>4. /\ Got(w)' = b /\ acquired'[w].localeId = l
      /\ \A u \in WordBreaker : u # w => Got(u)' = Got(u) /\ acquired'[u] = acquired[u]
      /\ \A u \in WordBreaker : Held(u)' = Held(u)
      /\ \A i \in DOMAIN mPool : Pooled(i)' = Pooled(i)
      /\ opened'[b] = l
      /\ \A c \in Breaker : c # b => opened'[c] = opened[c]
  BY <1>0, <1>1, <1>2 DEF Got, Held, Pooled
<1>5. /\ \A i \in DOMAIN mPool : Pooled(i) # b /\ Pooled(i) \in Breaker
      /\ \A u \in WordBreaker : Held(u) # b /\ Got(u) # b
      /\ \A u \in WordBreaker : Held(u) \in Breaker \cup {NoBreaker} /\ Got(u) \in Breaker \cup {NoBreaker}
  <2>1. /\ \A i \in DOMAIN mPool : mPool[i].localeId # NoLocale /\ Pooled(i) \in Breaker
        /\ \A u \in WordBreaker : Held(u) # NoBreaker => mIcuBreaker[u].localeId # NoLocale
        /\ \A u \in WordBreaker : Got(u) # NoBreaker => acquired[u].localeId # NoLocale
    BY SlotTypes, PoolAssumption DEF Inv, FullSlot
  <2>2. \A u \in WordBreaker : Held(u) \in Breaker \cup {NoBreaker} /\ Got(u) \in Breaker \cup {NoBreaker}
    BY SlotTypes DEF Inv
  <2>. QED  BY <2>1, <2>2, <1>0, <1>2 DEF Inv, OpenForLocale
<1>6. Apart'
  BY <1>1, <1>4, <1>5, <1>2 DEF Inv, Apart
<1>7. OpenForLocale'
  BY <1>1, <1>4, <1>5 DEF Inv, OpenForLocale
<1>8. Following'
  BY <1>1, <1>2, <1>4 DEF Inv, Following
<1>9. Kept'
  <2>1. \A u \in WordBreaker : Got(u) # NoBreaker => u # w
    BY <1>1, PoolAssumption DEF Got, EmptySlot, Slot
  <2>. QED  BY <2>1, <1>1, <1>2, <1>4, PoolAssumption DEF Inv, Kept
<1>10. Reading'
  BY <1>1, <1>2, <1>4 DEF Inv, Reading
<1>. QED  BY <1>3, <1>6, <1>7, <1>8, <1>9, <1>10 DEF Inv

(* The word breaker takes what it acquired; the breaker it held is closed, *)
(* and held by nobody else.                                                *)
LEMMA AttachInv ==
  ASSUME Inv, NEW w \in WordBreaker, Attach(w)
  PROVE  Inv'
<1>1. /\ pc[w] = "acquired" /\ pc' = [pc EXCEPT ![w] = "breaking"]
      /\ mIcuBreaker' = [mIcuBreaker EXCEPT ![w] = acquired[w]]
      /\ acquired' = [acquired EXCEPT ![w] = EmptySlot]
      /\ opened' = [b \in Breaker |-> IF b = Held(w) THEN NoLocale ELSE opened[b]]
      /\ reads' = [b \in Breaker |-> IF b = Held(w) THEN NoText
                                     ELSE IF b = Got(w) THEN mText[w] ELSE reads[b]]
      /\ UNCHANGED <<mPool, mText, locale>>
      /\ Got(w) # NoBreaker /\ acquired[w].localeId = locale[w]
  BY DEF Attach, Goto, Inv, Following, Held, Got
<1>2. /\ pc \in [WordBreaker -> Label]
      /\ mIcuBreaker \in [WordBreaker -> FullSlot \cup {EmptySlot}]
      /\ acquired \in [WordBreaker -> FullSlot \cup {EmptySlot}]
      /\ opened \in [Breaker -> LocaleId \cup {NoLocale}]
      /\ mText \in [WordBreaker -> Text \cup {NoText}]
      /\ reads \in [Breaker -> Text \cup {NoText}]
      /\ EmptySlot.breaker = NoBreaker
  BY DEF Inv, TypeOK, FullSlot, EmptySlot, Slot
<1>3. TypeOK'
  BY <1>1, <1>2 DEF Inv, TypeOK, FullSlot, Label
<1>4. /\ Held(w)' = Got(w) /\ Got(w)' = NoBreaker
      /\ mIcuBreaker'[w] = acquired[w] /\ acquired'[w] = EmptySlot
      /\ \A u \in WordBreaker : u # w => /\ Held(u)' = Held(u) /\ Got(u)' = Got(u)
                                         /\ mIcuBreaker'[u] = mIcuBreaker[u]
                                         /\ acquired'[u] = acquired[u]
                                         /\ pc'[u] = pc[u]
      /\ pc'[w] = "breaking"
      /\ \A i \in DOMAIN mPool : Pooled(i)' = Pooled(i)
  BY <1>1, <1>2 DEF Held, Got, Pooled
<1>5. /\ \A i \in DOMAIN mPool : Pooled(i) \in Breaker
      /\ \A u \in WordBreaker : /\ Held(u) \in Breaker \cup {NoBreaker}
                                /\ Got(u) \in Breaker \cup {NoBreaker}
      /\ NoBreaker \notin Breaker
  BY SlotTypes, PoolAssumption DEF Inv
<1>6. Apart'
  BY <1>1, <1>4, <1>5 DEF Inv, Apart
<1>7. /\ \A i \in DOMAIN mPool : opened'[Pooled(i)] = opened[Pooled(i)]
      /\ \A u \in WordBreaker : u # w /\ Held(u) # NoBreaker => opened'[Held(u)] = opened[Held(u)]
      /\ \A u \in WordBreaker : Got(u) # NoBreaker => opened'[Got(u)] = opened[Got(u)]
  BY <1>1, <1>5 DEF Inv, Apart
<1>8. OpenForLocale'
  BY <1>1, <1>4, <1>7 DEF Inv, OpenForLocale
<1>9. Following'
  BY <1>1, <1>4 DEF Inv, Following
<1>10. Kept'
  BY <1>1, <1>2, <1>4, <1>5 DEF Inv, Kept
<1>11. Reading'
  <2>1. ASSUME NEW u \in WordBreaker, u # w, pc[u] = "breaking"
        PROVE  reads'[Held(u)] = reads[Held(u)]
    <3>1. Held(u) \in Breaker /\ Held(u) # Held(w) /\ Held(u) # Got(w)
      BY <2>1, <1>1, <1>5 DEF Inv, Apart, Following
    <3>. QED  BY <3>1, <1>1
  <2>2. reads'[Got(w)] = mText[w]
    <3>1. Got(w) \in Breaker /\ Got(w) # Held(w)
      BY <1>1, <1>5 DEF Inv, Apart
    <3>. QED  BY <3>1, <1>1
  <2>. QED  BY <2>1, <2>2, <1>1, <1>4 DEF Inv, Reading
<1>. QED  BY <1>3, <1>6, <1>8, <1>9, <1>10, <1>11 DEF Inv

(* finish gives its slot back: into the pool while there is room, else the *)
(* breaker is closed.                                                      *)
LEMMA FinishInv ==
  ASSUME Inv, NEW w \in WordBreaker, Finish(w)
  PROVE  Inv'
<1>1. /\ pc[w] # "acquired" /\ pc' = [pc EXCEPT ![w] = "constructed"]
      /\ mIcuBreaker' = [mIcuBreaker EXCEPT ![w] = EmptySlot]
      /\ mText' = [mText EXCEPT ![w] = NoText]
      /\ locale' = [locale EXCEPT ![w] = NoLocale]
      /\ UNCHANGED acquired
      /\ Release(mIcuBreaker[w])
  BY DEF Finish, Goto
<1>2. /\ pc \in [WordBreaker -> Label]
      /\ mIcuBreaker \in [WordBreaker -> FullSlot \cup {EmptySlot}]
      /\ locale \in [WordBreaker -> LocaleId \cup {NoLocale}]
      /\ opened \in [Breaker -> LocaleId \cup {NoLocale}]
      /\ mText \in [WordBreaker -> Text \cup {NoText}]
      /\ reads \in [Breaker -> Text \cup {NoText}]
      /\ EmptySlot.breaker = NoBreaker
  BY DEF Inv, TypeOK, FullSlot, EmptySlot, Slot
<1>3. /\ Held(w)' = NoBreaker
      /\ \A u \in WordBreaker : u # w => /\ Held(u)' = Held(u)
                                         /\ mIcuBreaker'[u] = mIcuBreaker[u]
                                         /\ pc'[u] = pc[u] /\ mText'[u] = mText[u]
                                         /\ locale'[u] = locale[u]
      /\ \A u \in WordBreaker : Got(u)' = Got(u)
      /\ pc'[w] = "constructed"
  BY <1>1, <1>2 DEF Held, Got
<1>4. /\ mPool \in Seq(FullSlot) /\ DOMAIN mPool = 1..Len(mPool) /\ Len(mPool) \in Nat
      /\ \A i \in DOMAIN mPool : Pooled(i) \in Breaker /\ Pooled(i) # NoBreaker
      /\ \A u \in WordBreaker : /\ Held(u) \in Breaker \cup {NoBreaker}
                                /\ Got(u) \in Breaker \cup {NoBreaker}
      /\ Held(w) # NoBreaker => mIcuBreaker[w] \in FullSlot
      /\ NoBreaker \notin Breaker
  BY SlotTypes, PoolAssumption DEF Inv
<1>5. Following'
  BY <1>1, <1>3 DEF Inv, Following
<1>6. CASE Held(w) = NoBreaker \/ Len(mPool) >= MAX_POOL_SIZE
  <2>1. /\ opened' = [b \in Breaker |-> IF b = Held(w) THEN NoLocale ELSE opened[b]]
        /\ reads' = [b \in Breaker |-> IF b = Held(w) THEN NoText ELSE reads[b]]
        /\ mPool' = mPool
    BY <1>1, <1>6 DEF Release, Held
  <2>2. TypeOK'
    BY <1>1, <1>2, <2>1 DEF Inv, TypeOK, FullSlot, Label
  <2>3. \A i \in DOMAIN mPool : Pooled(i)' = Pooled(i)
    BY <2>1 DEF Pooled
  <2>4. Apart'
    BY <1>3, <2>1, <2>3, <1>4 DEF Inv, Apart
  <2>5. /\ \A i \in DOMAIN mPool : opened'[Pooled(i)] = opened[Pooled(i)]
        /\ \A u \in WordBreaker : u # w /\ Held(u) # NoBreaker =>
             /\ opened'[Held(u)] = opened[Held(u)]
             /\ reads'[Held(u)] = reads[Held(u)]
        /\ \A u \in WordBreaker : Got(u) # NoBreaker => opened'[Got(u)] = opened[Got(u)]
    BY <1>4, <2>1 DEF Inv, Apart
  <2>6. OpenForLocale'
    <3>1. \A i \in DOMAIN mPool' : opened'[Pooled(i)'] = mPool'[i].localeId
      BY <2>1, <2>3, <2>5 DEF Inv, OpenForLocale
    <3>2. \A u \in WordBreaker : Held(u)' # NoBreaker => opened'[Held(u)'] = mIcuBreaker'[u].localeId
      BY <1>3, <2>5 DEF Inv, OpenForLocale
    <3>3. \A u \in WordBreaker : Got(u)' # NoBreaker => opened'[Got(u)'] = acquired'[u].localeId
      BY <1>1, <1>3, <2>5 DEF Inv, OpenForLocale
    <3>. QED  BY <3>1, <3>2, <3>3 DEF OpenForLocale
  <2>7. Kept'
    BY <1>3, <1>4, <2>1, <2>3 DEF Inv, Kept
  <2>8. Reading'
    BY <1>3, <2>5 DEF Inv, Reading, Following
  <2>. QED  BY <1>5, <2>2, <2>4, <2>6, <2>7, <2>8 DEF Inv
<1>7. CASE Held(w) # NoBreaker /\ Len(mPool) < MAX_POOL_SIZE
  <2>0. mPool' = <<mIcuBreaker[w]>> \o mPool /\ UNCHANGED <<opened, reads>>
    BY <1>1, <1>4, <1>7, PoolAssumption DEF Release, Held
  <2>1. /\ mPool' \in Seq(FullSlot) /\ Len(mPool') = Len(mPool) + 1
        /\ DOMAIN mPool' = 1..Len(mPool) + 1
        /\ mPool'[1] = mIcuBreaker[w]
        /\ \A j \in 1..Len(mPool) : mPool'[j + 1] = mPool[j]
    <3>1. /\ mPool' \in Seq(FullSlot) /\ Len(mPool') = Len(mPool) + 1
          /\ mPool'[1] = mIcuBreaker[w]
          /\ \A j \in 1..Len(mPool) : mPool'[j + 1] = mPool[j]
      BY <2>0, <1>4, <1>7, Pushed
    <3>. QED  BY <3>1, <1>4
  <2>2. TypeOK'
    BY <1>1, <1>2, <2>0, <2>1 DEF Inv, TypeOK, FullSlot, Label
  <2>3. \A j \in DOMAIN mPool' : j = 1 \/ (j - 1 \in DOMAIN mPool /\ mPool'[j] = mPool[j - 1])
    <3> SUFFICES ASSUME NEW j \in DOMAIN mPool', j # 1
                 PROVE  j - 1 \in DOMAIN mPool /\ mPool'[j] = mPool[j - 1]
      OBVIOUS
    <3>1. j - 1 \in 1..Len(mPool) /\ (j - 1) + 1 = j
      BY <2>1, <1>4
    <3>. QED  BY <3>1, <2>1, <1>4
  <2>4. \A i \in DOMAIN mPool : i + 1 \in DOMAIN mPool' /\ mPool'[i + 1] = mPool[i]
    BY <2>1, <1>4
  <2>5. /\ 1 \in DOMAIN mPool' /\ mPool'[1] = mIcuBreaker[w] /\ Pooled(1)' = Held(w)
        /\ \A j \in DOMAIN mPool' : j # 1 => Pooled(j)' = Pooled(j - 1)
    BY <2>1, <2>3, <1>4 DEF Pooled, Held
  <2>6. Apart'
    <3>1. ASSUME NEW j \in DOMAIN mPool', NEW k \in DOMAIN mPool', Pooled(j)' = Pooled(k)'
          PROVE  j = k
      <4>1. CASE j = 1
        BY <4>1, <3>1, <2>3, <2>5 DEF Inv, Apart
      <4>2. CASE k = 1
        BY <4>2, <3>1, <2>3, <2>5 DEF Inv, Apart
      <4>3. CASE j # 1 /\ k # 1
        <5>1. j - 1 = k - 1
          BY <4>3, <3>1, <2>3, <2>5 DEF Inv, Apart
        <5>. QED  BY <5>1, <2>1, <1>4
      <4>. QED  BY <4>1, <4>2, <4>3
    <3>2. ASSUME NEW j \in DOMAIN mPool', NEW u \in WordBreaker
          PROVE  Pooled(j)' # Held(u)' /\ Pooled(j)' # Got(u)'
      <4>1. CASE j = 1
        BY <4>1, <1>3, <1>7, <2>5 DEF Inv, Apart
      <4>2. CASE j # 1
        BY <4>2, <1>3, <1>4, <2>3, <2>5 DEF Inv, Apart
      <4>. QED  BY <4>1, <4>2
    <3>3. /\ \A u, v \in WordBreaker : Held(u)' = Held(v)' /\ Held(u)' # NoBreaker => u = v
          /\ \A u, v \in WordBreaker : Got(u)' = Got(v)' /\ Got(u)' # NoBreaker => u = v
          /\ \A u, v \in WordBreaker : Held(u)' = Got(v)' => Held(u)' = NoBreaker
      BY <1>3 DEF Inv, Apart
    <3>. QED  BY <3>1, <3>2, <3>3 DEF Apart
  <2>7. OpenForLocale'
    <3>1. ASSUME NEW j \in DOMAIN mPool' PROVE opened'[Pooled(j)'] = mPool'[j].localeId
      <4>1. CASE j = 1
        BY <4>1, <1>7, <2>0, <2>5 DEF Inv, OpenForLocale
      <4>2. CASE j # 1
        BY <4>2, <2>0, <2>3, <2>5 DEF Inv, OpenForLocale
      <4>. QED  BY <4>1, <4>2
    <3>. QED  BY <3>1, <1>1, <1>3, <2>0 DEF Inv, OpenForLocale
  <2>8. Kept'
    <3>1. ASSUME NEW b \in Breaker, opened'[b] # NoLocale
          PROVE  \/ \E j \in DOMAIN mPool' : Pooled(j)' = b
                 \/ \E u \in WordBreaker : Held(u)' = b \/ Got(u)' = b
      <4>1. CASE \E i \in DOMAIN mPool : Pooled(i) = b
        BY <4>1, <2>4 DEF Pooled
      <4>2. CASE \E u \in WordBreaker : Held(u) = b \/ Got(u) = b
        BY <4>2, <1>3, <2>5
      <4>. QED  BY <3>1, <2>0, <4>1, <4>2 DEF Inv, Kept
    <3>2. Len(mPool') <= MAX_POOL_SIZE
      BY <1>4, <1>7, <2>1, PoolAssumption
    <3>. QED  BY <3>1, <3>2 DEF Kept
  <2>9. Reading'
    BY <1>3, <2>0 DEF Inv, Reading
  <2>. QED  BY <1>5, <2>2, <2>6, <2>7, <2>8, <2>9 DEF Inv
<1>. QED  BY <1>4, <1>6, <1>7, PoolAssumption

LEMMA NextInv == Inv /\ [Next]_vars => Inv'
<1> SUFFICES ASSUME Inv, [Next]_vars PROVE Inv'
  OBVIOUS
<1>1. ASSUME NEW w \in WordBreaker, NEW text \in Text, SetText(w, text) PROVE Inv'
  BY <1>1, SetTextInv
<1>2. ASSUME NEW w \in WordBreaker, NEW l \in LocaleId, Acquire(w, l) PROVE Inv'
  BY <1>2, AcquirePooledInv, AcquireNewInv DEF Acquire
<1>3. ASSUME NEW w \in WordBreaker, Attach(w) PROVE Inv'
  BY <1>3, AttachInv
<1>4. ASSUME NEW w \in WordBreaker, Finish(w) PROVE Inv'
  BY <1>4, FinishInv
<1>5. CASE UNCHANGED vars
  BY <1>5 DEF vars, Inv, TypeOK, Apart, OpenForLocale, Following, Kept, Reading, Pooled, Held, Got
<1>. QED  BY <1>1, <1>2, <1>3, <1>4, <1>5 DEF Next

LEMMA SpecInv == Spec => []Inv
  BY InitInv, NextInv, PTL DEF Spec

-----------------------------------------------------------------------------
(* The places of the properties are those of the invariant.                *)
LEMMA Places ==
  ASSUME NEW p \in Place
  PROVE  \/ p[1] = "pool" /\ p[2] \in DOMAIN mPool /\ p = <<"pool", p[2]>>
            /\ SlotIn(p) = mPool[p[2]]
         \/ p[1] = "held" /\ p[2] \in WordBreaker /\ p = <<"held", p[2]>>
            /\ SlotIn(p) = mIcuBreaker[p[2]]
         \/ p[1] = "acquired" /\ p[2] \in WordBreaker /\ p = <<"acquired", p[2]>>
            /\ SlotIn(p) = acquired[p[2]]
<1>1. CASE p \in {"pool"} \X DOMAIN mPool
  BY <1>1 DEF SlotIn
<1>2. CASE p \in {"held", "acquired"} \X WordBreaker
  BY <1>2 DEF SlotIn
<1>. QED  BY <1>1, <1>2 DEF Place

(* Every breaker has at most one holder, whatever the threads do.          *)
THEOREM EachHasOneHolder == Spec => []OneHolder
<1>1. Inv => OneHolder
  <2> SUFFICES ASSUME Inv, NEW p \in Place, NEW q \in Place,
                      SlotIn(p).breaker = SlotIn(q).breaker, SlotIn(p).breaker # NoBreaker
               PROVE  p = q
    BY DEF OneHolder
  <2>1. p[1] = q[1] /\ p[2] = q[2]
    BY Places DEF Inv, Apart, Pooled, Held, Got
  <2>. QED  BY <2>1, Places
<1>. QED  BY <1>1, SpecInv, PTL

(* Text is broken by a breaker opened for the locale asked for.            *)
THEOREM LocalesAreRight == Spec => []RightLocale
<1>1. Inv => RightLocale
  <2> SUFFICES ASSUME Inv PROVE RightLocale
    OBVIOUS
  <2>1. ASSUME NEW p \in Place, SlotIn(p).breaker # NoBreaker
        PROVE  opened[SlotIn(p).breaker] = SlotIn(p).localeId
    BY <2>1, Places DEF Inv, OpenForLocale, Pooled, Held, Got
  <2>2. \A w \in WordBreaker : pc[w] = "breaking" => mIcuBreaker[w].localeId = locale[w]
    BY DEF Inv, Following
  <2>. QED  BY <2>1, <2>2 DEF RightLocale
<1>. QED  BY <1>1, SpecInv, PTL

(* An open breaker is with a word breaker or in the pool, which is bounded. *)
THEOREM NoneLeaks == Spec => []NoBreakerLeaks
<1>1. Inv => NoBreakerLeaks
  <2> SUFFICES ASSUME Inv PROVE NoBreakerLeaks
    OBVIOUS
  <2>1. ASSUME NEW b \in Breaker, opened[b] # NoLocale
        PROVE  \E p \in Place : SlotIn(p).breaker = b
    <3>1. ASSUME NEW i \in DOMAIN mPool, Pooled(i) = b PROVE \E p \in Place : SlotIn(p).breaker = b
      <4>1. <<"pool", i>> \in Place /\ SlotIn(<<"pool", i>>) = mPool[i]
        BY DEF Place, SlotIn
      <4>. QED  BY <4>1, <3>1 DEF Pooled
    <3>2. ASSUME NEW w \in WordBreaker, Held(w) = b PROVE \E p \in Place : SlotIn(p).breaker = b
      <4>1. <<"held", w>> \in Place /\ SlotIn(<<"held", w>>) = mIcuBreaker[w]
        BY DEF Place, SlotIn
      <4>. QED  BY <4>1, <3>2 DEF Held
    <3>3. ASSUME NEW w \in WordBreaker, Got(w) = b PROVE \E p \in Place : SlotIn(p).breaker = b
      <4>1. <<"acquired", w>> \in Place /\ SlotIn(<<"acquired", w>>) = acquired[w]
        BY DEF Place, SlotIn
      <4>. QED  BY <4>1, <3>3 DEF Got
    <3>. QED  BY <2>1, <3>1, <3>2, <3>3 DEF Inv, Kept
  <2>. QED  BY <2>1 DEF NoBreakerLeaks, Inv, Kept
<1>. QED  BY <1>1, SpecInv, PTL

(* A breaker in use reads its user's text, not one a former holder freed.  *)
THEOREM OwnTextIsRead == Spec => []ReadsOwnText
<1>1. Inv => ReadsOwnText
  BY DEF Inv, Reading, ReadsOwnText, Held
<1>. QED  BY <1>1, SpecInv, PTL

=============================================================================
