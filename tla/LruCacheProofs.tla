--------------------------- MODULE LruCacheProofs ---------------------------
(***************************************************************************)
(* The doubly linked list of LruCache.h implements the map with a recency  *)
(* order, for any keys, values and capacity and any finite heap.  The      *)
(* inductive invariant says that there is a sequence of entries that the   *)
(* pointers link in both directions from mOldest to mYoungest; each member *)
(* function is a lemma about that sequence: detachFromCache cuts an entry  *)
(* out, attachToCache appends one, and a walk visits all of it.            *)
(***************************************************************************)
EXTENDS LruCache, FiniteSetTheorems, TLAPS

CacheType == [set : SUBSET Addr, node : [Addr -> Entry], oldest : Pointer, youngest : Pointer]

(* The pointers of c link the entries of list, and only those. *)
Linked(c, list) ==
  /\ \A i, j \in 1..Len(list) : list[i] = list[j] => i = j
  /\ c.oldest = IF list = << >> THEN NullPtr ELSE list[1]
  /\ c.youngest = IF list = << >> THEN NullPtr ELSE list[Len(list)]
  /\ \A i \in 1..Len(list) : c.node[list[i]].parent = IF i = 1 THEN NullPtr ELSE list[i - 1]
  /\ \A i \in 1..Len(list) : c.node[list[i]].child = IF i = Len(list) THEN NullPtr ELSE list[i + 1]

(* Every cached entry has a key and a value, and no other has its key. *)
Keyed(c) ==
  /\ \A a \in c.set : c.node[a].key \in Key /\ c.node[a].value \in Value
  /\ \A a, b \in c.set : c.node[a].key = c.node[b].key => a = b

Lists(c, list) ==
  /\ list \in Seq(Addr)
  /\ \A a : a \in c.set <=> \E i \in 1..Len(list) : list[i] = a
  /\ Linked(c, list)

Sound(c) == c \in CacheType /\ Keyed(c) /\ \E list : Lists(c, list)

Inv == TypeOK /\ Sound(cache) /\ ToldOnce

(* The sequence without its entry at i. *)
Cut(list, i) == [j \in 1..Len(list) - 1 |-> IF j < i THEN list[j] ELSE list[j + 1]]

-----------------------------------------------------------------------------
(* The member functions on the pointers. *)

LEMMA SetParentFields ==
  ASSUME NEW c \in CacheType, NEW a \in Addr, NEW p \in Pointer
  PROVE  LET d == SetParent(c, a, p)
         IN /\ d \in CacheType
            /\ d.set = c.set /\ d.oldest = c.oldest /\ d.youngest = c.youngest
            /\ \A b \in Addr : /\ d.node[b].key = c.node[b].key
                               /\ d.node[b].value = c.node[b].value
                               /\ d.node[b].child = c.node[b].child
                               /\ d.node[b].parent = IF b = a THEN p ELSE c.node[b].parent
  BY DEF SetParent, CacheType, Entry, Pointer

LEMMA SetChildFields ==
  ASSUME NEW c \in CacheType, NEW a \in Addr, NEW p \in Pointer
  PROVE  LET d == SetChild(c, a, p)
         IN /\ d \in CacheType
            /\ d.set = c.set /\ d.oldest = c.oldest /\ d.youngest = c.youngest
            /\ \A b \in Addr : /\ d.node[b].key = c.node[b].key
                               /\ d.node[b].value = c.node[b].value
                               /\ d.node[b].parent = c.node[b].parent
                               /\ d.node[b].child = IF b = a THEN p ELSE c.node[b].child
  BY DEF SetChild, CacheType, Entry, Pointer

LEMMA SetEndsFields ==
  ASSUME NEW c \in CacheType, NEW p \in Pointer
  PROVE  /\ LET d == [c EXCEPT !.oldest = p]
            IN d \in CacheType /\ d.set = c.set /\ d.node = c.node /\ d.oldest = p /\ d.youngest = c.youngest
         /\ LET d == [c EXCEPT !.youngest = p]
            IN d \in CacheType /\ d.set = c.set /\ d.node = c.node /\ d.oldest = c.oldest /\ d.youngest = p
  BY DEF CacheType

LEMMA DetachFields ==
  ASSUME NEW c \in CacheType, NEW a \in Addr,
         c.node[a].parent # a, c.node[a].child # a,
         c.node[a].parent = c.node[a].child => c.node[a].parent = NullPtr
  PROVE  LET d == DetachFromCache(c, a)
             up == c.node[a].parent
             down == c.node[a].child
         IN /\ d \in CacheType
            /\ d.set = c.set
            /\ d.oldest = IF up = NullPtr THEN down ELSE c.oldest
            /\ d.youngest = IF down = NullPtr THEN up ELSE c.youngest
            /\ \A b \in Addr :
                 /\ d.node[b].key = c.node[b].key
                 /\ d.node[b].value = c.node[b].value
                 /\ d.node[b].parent = IF b = a THEN NullPtr
                                       ELSE IF b = down THEN up ELSE c.node[b].parent
                 /\ d.node[b].child = IF b = a THEN NullPtr
                                      ELSE IF b = up THEN down ELSE c.node[b].child
<1> DEFINE e == c.node[a]
           u == IF e.parent # NullPtr THEN SetChild(c, e.parent, e.child)
                ELSE [c EXCEPT !.oldest = e.child]
           w == IF e.child # NullPtr THEN SetParent(u, e.child, e.parent)
                ELSE [u EXCEPT !.youngest = e.parent]
           d == SetChild(SetParent(w, a, NullPtr), a, NullPtr)
<1>0. /\ e.parent \in Addr \cup {NullPtr} /\ e.child \in Addr \cup {NullPtr}
      /\ NullPtr \notin Addr
  BY CacheAssumption DEF CacheType, Entry, Pointer
<1>1. /\ u \in CacheType
      /\ u.set = c.set
      /\ u.oldest = IF e.parent = NullPtr THEN e.child ELSE c.oldest
      /\ u.youngest = c.youngest
      /\ \A b \in Addr : /\ u.node[b].key = c.node[b].key
                         /\ u.node[b].value = c.node[b].value
                         /\ u.node[b].parent = c.node[b].parent
                         /\ u.node[b].child = IF b = e.parent THEN e.child ELSE c.node[b].child
  <2>1. CASE e.parent = NullPtr
    BY <1>0, <2>1 DEF CacheType, Pointer
  <2>2. CASE e.parent # NullPtr
    <3>1. u = SetChild(c, e.parent, e.child) /\ e.parent \in Addr /\ e.child \in Pointer
      BY <1>0, <2>2 DEF Pointer
    <3> HIDE DEF u, e
    <3>. QED  BY <3>1, <2>2, SetChildFields
  <2>. QED  BY <2>1, <2>2
<1> HIDE DEF u
<1>2. /\ w \in CacheType
      /\ w.set = u.set
      /\ w.oldest = u.oldest
      /\ w.youngest = IF e.child = NullPtr THEN e.parent ELSE u.youngest
      /\ \A b \in Addr : /\ w.node[b].key = u.node[b].key
                         /\ w.node[b].value = u.node[b].value
                         /\ w.node[b].child = u.node[b].child
                         /\ w.node[b].parent = IF b = e.child THEN e.parent ELSE u.node[b].parent
  <2>1. CASE e.child = NullPtr
    BY <1>0, <1>1, <2>1 DEF CacheType, Pointer
  <2>2. CASE e.child # NullPtr
    <3>1. w = SetParent(u, e.child, e.parent) /\ e.child \in Addr /\ e.parent \in Pointer
      BY <1>0, <2>2 DEF Pointer
    <3> HIDE DEF w, e
    <3>. QED  BY <1>1, <3>1, <2>2, SetParentFields
  <2>. QED  BY <2>1, <2>2
<1> HIDE DEF w
<1>3. /\ d \in CacheType
      /\ d.set = w.set
      /\ d.oldest = w.oldest
      /\ d.youngest = w.youngest
      /\ \A b \in Addr : /\ d.node[b].key = w.node[b].key
                         /\ d.node[b].value = w.node[b].value
                         /\ d.node[b].child = IF b = a THEN NullPtr ELSE w.node[b].child
                         /\ d.node[b].parent = IF b = a THEN NullPtr ELSE w.node[b].parent
  <2> DEFINE x == SetParent(w, a, NullPtr)
  <2>0. NullPtr \in Pointer
    BY DEF Pointer
  <2>1. /\ x \in CacheType
        /\ x.set = w.set /\ x.oldest = w.oldest /\ x.youngest = w.youngest
        /\ \A b \in Addr : /\ x.node[b].key = w.node[b].key
                           /\ x.node[b].value = w.node[b].value
                           /\ x.node[b].child = w.node[b].child
                           /\ x.node[b].parent = IF b = a THEN NullPtr ELSE w.node[b].parent
    BY <1>2, <2>0, SetParentFields
  <2> HIDE DEF x
  <2>2. d = SetChild(x, a, NullPtr)
    BY DEF x
  <2> HIDE DEF d
  <2>. QED  BY <2>0, <2>1, <2>2, SetChildFields
<1>4. DetachFromCache(c, a) = d
  BY DEF DetachFromCache, u, w
<1> HIDE DEF d
<1>. QED  BY <1>1, <1>2, <1>3, <1>4

LEMMA AttachFields ==
  ASSUME NEW c \in CacheType, NEW a \in Addr, c.youngest # a
  PROVE  LET d == AttachToCache(c, a)
             old == c.youngest
         IN /\ d \in CacheType
            /\ d.set = c.set
            /\ d.oldest = IF old = NullPtr THEN a ELSE c.oldest
            /\ d.youngest = a
            /\ \A b \in Addr :
                 /\ d.node[b].key = c.node[b].key
                 /\ d.node[b].value = c.node[b].value
                 /\ d.node[b].parent = IF b = a /\ old # NullPtr THEN old ELSE c.node[b].parent
                 /\ d.node[b].child = IF b = old THEN a ELSE c.node[b].child
<1> DEFINE old == c.youngest
           x == SetParent(c, a, old)
           y == SetChild(x, old, a)
<1>0. old \in Pointer /\ a \in Pointer /\ NullPtr \notin Addr
  BY CacheAssumption DEF CacheType, Pointer
<1>1. CASE old = NullPtr
  BY <1>1, <1>0 DEF AttachToCache, CacheType
<1>2. CASE old # NullPtr
  <2>1. /\ x \in CacheType
        /\ x.set = c.set /\ x.oldest = c.oldest /\ x.youngest = c.youngest
        /\ \A b \in Addr : /\ x.node[b].key = c.node[b].key
                           /\ x.node[b].value = c.node[b].value
                           /\ x.node[b].child = c.node[b].child
                           /\ x.node[b].parent = IF b = a THEN old ELSE c.node[b].parent
    BY <1>0, SetParentFields
  <2> HIDE DEF x
  <2>2. /\ y \in CacheType
        /\ y.set = x.set /\ y.oldest = x.oldest /\ y.youngest = x.youngest
        /\ \A b \in Addr : /\ y.node[b].key = x.node[b].key
                           /\ y.node[b].value = x.node[b].value
                           /\ y.node[b].parent = x.node[b].parent
                           /\ y.node[b].child = IF b = old THEN a ELSE x.node[b].child
    BY <1>0, <1>2, <2>1, SetChildFields DEF Pointer
  <2>3. AttachToCache(c, a) = [y EXCEPT !.youngest = a]
    BY <1>2 DEF AttachToCache, x
  <2> DEFINE z == [y EXCEPT !.youngest = a]
  <2>5. AttachToCache(c, a) = z
    BY <2>3
  <2>4. /\ z \in CacheType
        /\ z.set = y.set /\ z.oldest = y.oldest /\ z.youngest = a /\ z.node = y.node
    BY <1>0, <2>1, <2>2, SetEndsFields
  <2> HIDE DEF y, z
  <2>. QED  BY <1>2, <2>1, <2>2, <2>4, <2>5
<1>. QED  BY <1>1, <1>2

-----------------------------------------------------------------------------
(* A sequence without one of its entries has all the others, in order. *)
LEMMA CutFacts ==
  ASSUME NEW T, NEW s \in Seq(T), \A i, j \in 1..Len(s) : s[i] = s[j] => i = j, NEW i \in 1..Len(s)
  PROVE  /\ Cut(s, i) \in Seq(T) /\ Len(Cut(s, i)) = Len(s) - 1
         /\ \A j \in 1..Len(Cut(s, i)) : Cut(s, i)[j] = IF j < i THEN s[j] ELSE s[j + 1]
         /\ \A v : (\E j \in 1..Len(Cut(s, i)) : Cut(s, i)[j] = v)
                     <=> v # s[i] /\ \E j \in 1..Len(s) : s[j] = v
<1> DEFINE n == Len(s)
           cut == Cut(s, i)
<1>1. /\ n \in Nat /\ cut \in Seq(T) /\ Len(cut) = n - 1
      /\ \A j \in 1..n - 1 : cut[j] = IF j < i THEN s[j] ELSE s[j + 1]
  BY DEF Cut
<1> HIDE DEF cut
<1>2. ASSUME NEW j \in 1..n - 1
      PROVE  cut[j] # s[i] /\ \E h \in 1..n : s[h] = cut[j]
  <2>1. CASE j < i
    <3>1. j \in 1..n /\ j # i /\ cut[j] = s[j]
      BY <2>1, <1>1
    <3>. QED  BY <3>1
  <2>2. CASE ~ (j < i)
    <3>1. j + 1 \in 1..n /\ j + 1 # i /\ cut[j] = s[j + 1]
      BY <2>2, <1>1
    <3>. QED  BY <3>1
  <2>. QED  BY <2>1, <2>2
<1>3. ASSUME NEW j \in 1..n, s[j] # s[i]
      PROVE  \E h \in 1..n - 1 : cut[h] = s[j]
  <2>1. CASE j < i
    <3>1. j \in 1..n - 1 /\ cut[j] = s[j]
      BY <2>1, <1>1
    <3>. QED  BY <3>1
  <2>2. CASE j > i
    <3>1. j - 1 \in 1..n - 1 /\ cut[j - 1] = s[j]
      BY <2>2, <1>1
    <3>. QED  BY <3>1
  <2>. QED  BY <2>1, <2>2, <1>3
<1>. QED  BY <1>1, <1>2, <1>3 DEF cut

(* What the member functions do to the list. *)

(* An entry that detachFromCache unlinks is cut out of the list, and no    *)
(* other entry moves.                                                      *)
LEMMA DetachLinked ==
  ASSUME NEW c \in CacheType, NEW list \in Seq(Addr), Linked(c, list), NEW i \in 1..Len(list)
  PROVE  LET d == DetachFromCache(c, list[i])
         IN /\ d \in CacheType
            /\ d.set = c.set
            /\ \A b \in Addr : d.node[b].key = c.node[b].key /\ d.node[b].value = c.node[b].value
            /\ d.node[list[i]].parent = NullPtr /\ d.node[list[i]].child = NullPtr
            /\ Cut(list, i) \in Seq(Addr)
            /\ Linked(d, Cut(list, i))
<1> DEFINE a == list[i]
           d == DetachFromCache(c, a)
           n == Len(list)
           up == IF i = 1 THEN NullPtr ELSE list[i - 1]
           down == IF i = n THEN NullPtr ELSE list[i + 1]
           cut == Cut(list, i)
<1>0. /\ n \in Nat /\ i \in 1..n /\ NullPtr \notin Addr /\ list # << >>
      /\ \A j \in 1..n : list[j] \in Addr
      /\ \A j, k \in 1..n : list[j] = list[k] => j = k
  BY CacheAssumption DEF Linked
<1>1. c.node[a].parent = up /\ c.node[a].child = down
  BY <1>0 DEF Linked
<1>2. /\ up # a /\ down # a /\ (up = down => up = NullPtr)
  BY <1>0
<1>3. /\ d \in CacheType
      /\ d.set = c.set
      /\ d.oldest = IF up = NullPtr THEN down ELSE c.oldest
      /\ d.youngest = IF down = NullPtr THEN up ELSE c.youngest
      /\ \A b \in Addr :
           /\ d.node[b].key = c.node[b].key
           /\ d.node[b].value = c.node[b].value
           /\ d.node[b].parent = IF b = a THEN NullPtr
                                 ELSE IF b = down THEN up ELSE c.node[b].parent
           /\ d.node[b].child = IF b = a THEN NullPtr
                                ELSE IF b = up THEN down ELSE c.node[b].child
  <2>1. a \in Addr
    BY <1>0
  <2> HIDE DEF a, up, down
  <2>. QED  BY <1>1, <1>2, <2>1, DetachFields DEF d
<1> HIDE DEF d
<1>4. /\ cut \in Seq(Addr) /\ Len(cut) = n - 1
      /\ \A j \in 1..n - 1 : cut[j] = IF j < i THEN list[j] ELSE list[j + 1]
  BY <1>0 DEF Cut
<1> HIDE DEF cut
<1>5. Linked(d, cut)
  <2>1. \A j, k \in 1..Len(cut) : cut[j] = cut[k] => j = k
    BY <1>0, <1>4
  <2>2. d.oldest = IF cut = << >> THEN NullPtr ELSE cut[1]
    BY <1>0, <1>3, <1>4 DEF Linked
  <2>3. d.youngest = IF cut = << >> THEN NullPtr ELSE cut[Len(cut)]
    BY <1>0, <1>3, <1>4 DEF Linked
  <2>4. ASSUME NEW j \in 1..Len(cut)
        PROVE  d.node[cut[j]].parent = IF j = 1 THEN NullPtr ELSE cut[j - 1]
    <3>0. j \in 1..n /\ j + 1 \in 1..n
      BY <1>0, <1>4
    <3>1. CASE j < i
      <4>1. /\ cut[j] = list[j] /\ list[j] \in Addr /\ list[j] # a /\ list[j] # down
            /\ j # 1 => cut[j - 1] = list[j - 1]
        BY <3>0, <3>1, <1>0, <1>4
      <4>. QED  BY <4>1, <3>0, <1>3 DEF Linked
    <3>2. CASE j = i
      <4>1. /\ cut[j] = list[j + 1] /\ list[j + 1] \in Addr /\ list[j + 1] # a /\ list[j + 1] = down
            /\ up = IF j = 1 THEN NullPtr ELSE cut[j - 1]
        BY <3>0, <3>2, <1>0, <1>4
      <4>. QED  BY <4>1, <1>3
    <3>3. CASE j > i
      <4>1. /\ cut[j] = list[j + 1] /\ list[j + 1] \in Addr /\ list[j + 1] # a /\ list[j + 1] # down
            /\ j # 1 /\ cut[j - 1] = list[j]
        BY <3>0, <3>3, <1>0, <1>4
      <4>2. c.node[list[j + 1]].parent = list[j]
        BY <3>0, <1>0 DEF Linked
      <4>. QED  BY <4>1, <4>2, <1>3
    <3>. QED  BY <3>1, <3>2, <3>3, <3>0, <1>0
  <2>5. ASSUME NEW j \in 1..Len(cut)
        PROVE  d.node[cut[j]].child = IF j = Len(cut) THEN NullPtr ELSE cut[j + 1]
    <3>0. j \in 1..n /\ j + 1 \in 1..n
      BY <1>0, <1>4
    <3>1. CASE j < i - 1
      <4>1. /\ cut[j] = list[j] /\ list[j] \in Addr /\ list[j] # a /\ list[j] # up
            /\ j # Len(cut) /\ cut[j + 1] = list[j + 1]
        BY <3>0, <3>1, <1>0, <1>4
      <4>2. c.node[list[j]].child = list[j + 1]
        BY <3>0, <1>0 DEF Linked
      <4>. QED  BY <4>1, <4>2, <1>3
    <3>2. CASE j = i - 1
      <4>1. /\ cut[j] = list[j] /\ list[j] \in Addr /\ list[j] # a /\ list[j] = up
            /\ down = IF j = Len(cut) THEN NullPtr ELSE cut[j + 1]
        BY <3>0, <3>2, <1>0, <1>4
      <4>. QED  BY <4>1, <1>3
    <3>3. CASE j > i - 1
      <4>1. cut[j] = list[j + 1] /\ list[j + 1] \in Addr /\ list[j + 1] # a
        BY <3>0, <3>3, <1>0, <1>4
      <4>3. list[j + 1] # up
        BY <3>0, <3>3, <1>0
      <4>4. ASSUME j # Len(cut) PROVE cut[j + 1] = list[j + 2]
        <5>1. j + 1 \in 1..n - 1 /\ ~(j + 1 < i) /\ j + 1 + 1 = j + 2
          BY <3>0, <3>3, <4>4, <1>4, <1>0
        <5>. QED  BY <5>1, <1>4
      <4>2. c.node[list[j + 1]].child = IF j = Len(cut) THEN NullPtr ELSE list[j + 2]
        BY <3>0, <1>0, <1>4 DEF Linked
      <4>. QED  BY <4>1, <4>2, <4>3, <4>4, <1>3
    <3>. QED  BY <3>1, <3>2, <3>3, <3>0, <1>0
  <2>. QED  BY <2>1, <2>2, <2>3, <2>4, <2>5 DEF Linked
<1>6. d.node[a].parent = NullPtr /\ d.node[a].child = NullPtr
  BY <1>0, <1>3
<1>. QED  BY <1>3, <1>4, <1>5, <1>6 DEF d, cut

(* An entry with no links of its own that attachToCache links is the last  *)
(* of the list.                                                            *)
LEMMA AttachLinked ==
  ASSUME NEW c \in CacheType, NEW list \in Seq(Addr), Linked(c, list),
         NEW a \in Addr, \A i \in 1..Len(list) : list[i] # a,
         c.node[a].parent = NullPtr, c.node[a].child = NullPtr
  PROVE  LET d == AttachToCache(c, a)
         IN /\ d \in CacheType
            /\ d.set = c.set
            /\ \A b \in Addr : d.node[b].key = c.node[b].key /\ d.node[b].value = c.node[b].value
            /\ Append(list, a) \in Seq(Addr)
            /\ Linked(d, Append(list, a))
<1> DEFINE d == AttachToCache(c, a)
           n == Len(list)
           old == IF n = 0 THEN NullPtr ELSE list[n]
           long == Append(list, a)
<1>0. /\ n \in Nat /\ NullPtr \notin Addr /\ (list = << >> <=> n = 0)
      /\ \A j \in 1..n : list[j] \in Addr /\ list[j] # a
      /\ \A j, k \in 1..n : list[j] = list[k] => j = k
  BY CacheAssumption DEF Linked
<1>1. c.youngest = old /\ old # a
  BY <1>0 DEF Linked
<1>2. /\ d \in CacheType
      /\ d.set = c.set
      /\ d.oldest = IF old = NullPtr THEN a ELSE c.oldest
      /\ d.youngest = a
      /\ \A b \in Addr :
           /\ d.node[b].key = c.node[b].key
           /\ d.node[b].value = c.node[b].value
           /\ d.node[b].parent = IF b = a /\ old # NullPtr THEN old ELSE c.node[b].parent
           /\ d.node[b].child = IF b = old THEN a ELSE c.node[b].child
  <2> HIDE DEF old
  <2>. QED  BY <1>1, AttachFields DEF d
<1> HIDE DEF d
<1>3. /\ long \in Seq(Addr) /\ Len(long) = n + 1
      /\ \A j \in 1..n + 1 : long[j] = IF j <= n THEN list[j] ELSE a
  BY <1>0
<1> HIDE DEF long
<1>4. Linked(d, long)
  <2>1. \A j, k \in 1..Len(long) : long[j] = long[k] => j = k
    BY <1>0, <1>3
  <2>2. d.oldest = long[1] /\ d.youngest = long[Len(long)] /\ long # << >>
    BY <1>0, <1>1, <1>2, <1>3 DEF Linked
  <2>3. ASSUME NEW j \in 1..Len(long)
        PROVE  d.node[long[j]].parent = IF j = 1 THEN NullPtr ELSE long[j - 1]
    <3>1. CASE j <= n
      BY <3>1, <1>0, <1>2, <1>3 DEF Linked
    <3>2. CASE j = n + 1
      BY <3>2, <1>0, <1>2, <1>3
    <3>. QED  BY <3>1, <3>2, <1>0, <1>3
  <2>4. ASSUME NEW j \in 1..Len(long)
        PROVE  d.node[long[j]].child = IF j = Len(long) THEN NullPtr ELSE long[j + 1]
    <3>1. CASE j < n
      <4>1. /\ long[j] = list[j] /\ list[j] \in Addr /\ list[j] # old
            /\ j # Len(long) /\ long[j + 1] = list[j + 1]
        BY <3>1, <1>0, <1>3
      <4>2. c.node[list[j]].child = list[j + 1]
        BY <3>1, <1>0, <1>3 DEF Linked
      <4>. QED  BY <4>1, <4>2, <1>2
    <3>2. CASE j = n
      BY <3>2, <1>0, <1>2, <1>3
    <3>3. CASE j = n + 1
      BY <3>3, <1>0, <1>2, <1>3
    <3>. QED  BY <3>1, <3>2, <3>3, <1>0, <1>3
  <2>. QED  BY <2>1, <2>2, <2>3, <2>4 DEF Linked
<1>. QED  BY <1>2, <1>3, <1>4 DEF d, long

-----------------------------------------------------------------------------
(* A set of natural numbers has a least one. *)
LEMMA LeastExists ==
  ASSUME NEW T \in SUBSET Nat, T # {}
  PROVE  \E x \in T : \A y \in T : x <= y
<1> DEFINE R == OpToRel(<, Nat)
<1>1. \A x, y \in Nat : y < x => <<y, x>> \in R
  BY DEF OpToRel
<1>2. IsWellFoundedOn(R, Nat)
  BY NatLessThanWellFounded
<1> HIDE DEF R
<1>3. PICK x \in T : \A y \in T : <<y, x>> \notin R
  BY <1>2, WFMin
<1>4. ASSUME NEW y \in T PROVE x <= y
  <2>1. x \in Nat /\ y \in Nat /\ ~ (y < x)
    BY <1>1, <1>3
  <2>. QED  BY <2>1
<1>. QED  BY <1>4

(* The walk of clear visits the entries of the list, in its order. *)
LEMMA ChainIsList ==
  ASSUME NEW c \in CacheType, NEW list \in Seq(Addr), Linked(c, list)
  PROVE  Chain(c) = list
<1> DEFINE N == Cardinality(Addr)
           n == Len(list)
           w == [i \in 1..N |-> IF i <= n THEN list[i] ELSE NullPtr]
           at == CHOOSE f \in [1..N -> Pointer] : IsWalk(c, f)
<1>0. /\ n \in Nat /\ N \in Nat /\ NullPtr \notin Addr /\ (list = << >> <=> n = 0)
      /\ \A j \in 1..n : list[j] \in Addr
  BY CacheAssumption, FS_CardinalityType
<1>1. IsFiniteSet(1..n) /\ Cardinality(1..n) = n
  <2>1. PICK m \in Nat : m = n
    BY <1>0
  <2>2. IsFiniteSet(1..m) /\ Cardinality(1..m) = m
    BY FS_Interval
  <2>. QED  BY <2>1, <2>2
<1>2. n <= N
  <2>1. list \in Injection(1..n, Addr)
    BY DEF Linked, Injection, IsInjective
  <2>. QED  BY <1>1, <2>1, FS_Injection, CacheAssumption
<1> HIDE DEF N
<1>3. w \in [1..N -> Pointer] /\ DOMAIN w = 1..N
  BY <1>0 DEF Pointer
<1>4. \A i \in 1..N : w[i] = IF i = 1 THEN c.oldest
                             ELSE IF w[i - 1] = NullPtr THEN NullPtr ELSE c.node[w[i - 1]].child
  <2> SUFFICES ASSUME NEW i \in 1..N
               PROVE  w[i] = IF i = 1 THEN c.oldest
                             ELSE IF w[i - 1] = NullPtr THEN NullPtr ELSE c.node[w[i - 1]].child
    OBVIOUS
  <2>1. CASE i = 1
    BY <2>1, <1>0, <1>2 DEF Linked
  <2>2. CASE i # 1 /\ i - 1 <= n
    <3>1. i - 1 \in 1..N /\ i - 1 \in 1..n /\ w[i - 1] = list[i - 1] /\ w[i - 1] # NullPtr
      BY <2>2, <1>0, <1>2
    <3>2. c.node[list[i - 1]].child = IF i - 1 = n THEN NullPtr ELSE list[i]
      BY <3>1, <1>0 DEF Linked
    <3>. QED  BY <2>2, <3>1, <3>2, <1>0, <1>2
  <2>3. CASE i # 1 /\ ~ (i - 1 <= n)
    BY <2>3, <1>0, <1>2
  <2>. QED  BY <2>1, <2>2, <2>3
<1> HIDE DEF w
<1>5. at \in [1..N -> Pointer] /\ IsWalk(c, at)
  <2>1. IsWalk(c, w)
    BY <1>3, <1>4 DEF IsWalk
  <2>. QED  BY <2>1, <1>3
<1> HIDE DEF at
<1>6. ASSUME NEW i \in 1..N PROVE at[i] = w[i]
  <2> DEFINE bad == {j \in 1..N : at[j] # w[j]}
  <2>1. SUFFICES ASSUME bad # {} PROVE FALSE
    BY <1>5, <1>3
  <2>2. bad \in SUBSET Nat
    BY <1>0
  <2>3. PICK x \in bad : \A y \in bad : x <= y
    BY <2>1, <2>2, LeastExists
  <2>4. x \in 1..N /\ at[x] # w[x] /\ (x # 1 => x - 1 \in 1..N /\ at[x - 1] = w[x - 1])
    BY <2>3, <1>0
  <2>. QED  BY <2>4, <1>4, <1>5 DEF IsWalk
<1>7. {j \in DOMAIN at : at[j] # NullPtr} = 1..n
  BY <1>6, <1>5, <1>0, <1>2, <1>3 DEF w
<1>8. [i \in 1..n |-> at[i]] = list
  BY <1>6, <1>0, <1>2 DEF w
<1>. QED  BY <1>1, <1>7, <1>8 DEF Chain, at, N

-----------------------------------------------------------------------------
(* The order of a sequence of keys without repetition. *)
SeqOrder(s) == {p \in Key \X Key : \E i, j \in 1..Len(s) : i < j /\ p = <<s[i], s[j]>>}

(* Cutting a key out of the sequence drops it from the order. *)
LEMMA CutOrder ==
  ASSUME NEW s \in Seq(Key), \A i, j \in 1..Len(s) : s[i] = s[j] => i = j, NEW i \in 1..Len(s)
  PROVE  SeqOrder(Cut(s, i)) = Promise!Drop(SeqOrder(s), {s[i]})
<1> DEFINE n == Len(s)
           cut == Cut(s, i)
           from(x) == IF x < i THEN x ELSE x + 1
<1>1. /\ n \in Nat /\ Len(cut) = n - 1
      /\ \A x \in 1..n - 1 : from(x) \in 1..n /\ from(x) # i /\ cut[x] = s[from(x)]
  BY DEF Cut
<1>2. ASSUME NEW x \in 1..n, x # i
      PROVE  \E y \in 1..n - 1 : from(y) = x
  <2>1. CASE x < i
    <3>1. x \in 1..n - 1 /\ from(x) = x
      BY <2>1, <1>1
    <3>. QED  BY <3>1
  <2>2. CASE x > i
    <3>1. x - 1 \in 1..n - 1 /\ from(x - 1) = x
      BY <2>2, <1>1
    <3>. QED  BY <3>1
  <2>. QED  BY <2>1, <2>2, <1>2
<1>3. \A x, y \in 1..n - 1 : x < y <=> from(x) < from(y)
  BY <1>1
<1> HIDE DEF cut, from
<1>4. ASSUME NEW p \in SeqOrder(cut)
      PROVE  p \in Promise!Drop(SeqOrder(s), {s[i]})
  <2>1. PICK x, y \in 1..n - 1 : x < y /\ p = <<cut[x], cut[y]>>
    BY <1>1 DEF SeqOrder
  <2>2. /\ from(x) \in 1..n /\ from(y) \in 1..n /\ from(x) < from(y)
        /\ p = <<s[from(x)], s[from(y)]>> /\ s[from(x)] # s[i] /\ s[from(y)] # s[i]
    BY <2>1, <1>1, <1>3
  <2>3. p \in SeqOrder(s)
    BY <2>2 DEF SeqOrder
  <2>. QED  BY <2>2, <2>3 DEF Promise!Drop
<1>5. ASSUME NEW p \in Promise!Drop(SeqOrder(s), {s[i]})
      PROVE  p \in SeqOrder(cut)
  <2>1. p \in SeqOrder(s) /\ p[1] # s[i] /\ p[2] # s[i]
    BY DEF Promise!Drop
  <2>2. PICK x, y \in 1..n : x < y /\ p = <<s[x], s[y]>>
    BY <2>1 DEF SeqOrder
  <2>3. x # i /\ y # i
    BY <2>1, <2>2
  <2>4. PICK u \in 1..n - 1 : from(u) = x
    BY <2>3, <1>2
  <2>5. PICK v \in 1..n - 1 : from(v) = y
    BY <2>3, <1>2
  <2>6. u < v /\ p = <<cut[u], cut[v]>>
    BY <2>2, <2>4, <2>5, <1>1, <1>3
  <2>7. p \in Key \X Key
    BY <2>1 DEF SeqOrder
  <2>. QED  BY <2>6, <2>7, <1>1 DEF SeqOrder
<1>. QED  BY <1>4, <1>5 DEF cut

(* Appending a key puts it after all others. *)
LEMMA AppendOrder ==
  ASSUME NEW s \in Seq(Key), NEW k \in Key
  PROVE  SeqOrder(Append(s, k)) = SeqOrder(s) \cup ({s[i] : i \in 1..Len(s)} \X {k})
<1> DEFINE n == Len(s)
           long == Append(s, k)
<1>1. /\ n \in Nat /\ Len(long) = n + 1
      /\ \A x \in 1..n + 1 : long[x] = IF x <= n THEN s[x] ELSE k
      /\ \A x \in 1..n : s[x] \in Key
  OBVIOUS
<1> HIDE DEF long
<1>2. ASSUME NEW p \in SeqOrder(long)
      PROVE  p \in SeqOrder(s) \cup ({s[i] : i \in 1..n} \X {k})
  <2>1. PICK x, y \in 1..n + 1 : x < y /\ p = <<long[x], long[y]>>
    BY <1>1 DEF SeqOrder
  <2>2. x \in 1..n /\ long[x] = s[x]
    BY <2>1, <1>1
  <2>3. CASE y <= n
    <3>1. y \in 1..n /\ p = <<s[x], s[y]>> /\ p \in Key \X Key
      BY <2>1, <2>2, <2>3, <1>1
    <3>. QED  BY <2>1, <2>2, <3>1 DEF SeqOrder
  <2>4. CASE ~ (y <= n)
    BY <2>1, <2>2, <2>4, <1>1
  <2>. QED  BY <2>3, <2>4
<1>3. ASSUME NEW p \in SeqOrder(s)
      PROVE  p \in SeqOrder(long)
  <2>1. PICK x, y \in 1..n : x < y /\ p = <<s[x], s[y]>>
    BY DEF SeqOrder
  <2>2. p \in Key \X Key /\ x \in 1..n + 1 /\ y \in 1..n + 1 /\ p = <<long[x], long[y]>>
    BY <2>1, <1>1 DEF SeqOrder
  <2>. QED  BY <2>1, <2>2, <1>1 DEF SeqOrder
<1>4. ASSUME NEW x \in 1..n
      PROVE  <<s[x], k>> \in SeqOrder(long)
  <2>1. x \in 1..n + 1 /\ n + 1 \in 1..n + 1 /\ x < n + 1 /\ <<s[x], k>> = <<long[x], long[n + 1]>>
    BY <1>1
  <2>. QED  BY <2>1, <1>1 DEF SeqOrder
<1>. QED  BY <1>2, <1>3, <1>4 DEF long

-----------------------------------------------------------------------------
(* The map and the order that a sound cache stands for. *)
MapOf(c) == [k \in Key |-> ValueOf(c, k)]
KeysOf(c, list) == [i \in 1..Len(list) |-> c.node[list[i]].key]

LEMMA FindsTheKey ==
  ASSUME NEW c \in CacheType, Keyed(c), NEW k
  PROVE  /\ FindByKey(c, k) = NullPtr => \A a \in c.set : c.node[a].key # k
         /\ FindByKey(c, k) # NullPtr => FindByKey(c, k) \in c.set /\ c.node[FindByKey(c, k)].key = k
         /\ \A a \in c.set : c.node[a].key = k => FindByKey(c, k) = a /\ a # NullPtr
<1>0. c.set \subseteq Addr /\ NullPtr \notin Addr
  BY CacheAssumption DEF CacheType
<1>1. CASE \E a \in c.set : c.node[a].key = k
  <2> DEFINE f == CHOOSE a \in c.set : c.node[a].key = k
  <2>1. f \in c.set /\ c.node[f].key = k
    BY <1>1
  <2>2. FindByKey(c, k) = f
    BY <1>1 DEF FindByKey
  <2> HIDE DEF f
  <2>. QED  BY <2>1, <2>2, <1>0 DEF Keyed
<1>2. CASE ~ \E a \in c.set : c.node[a].key = k
  BY <1>2 DEF FindByKey
<1>. QED  BY <1>1, <1>2

LEMMA MapFacts ==
  ASSUME NEW c \in CacheType, Keyed(c)
  PROVE  /\ MapOf(c) \in [Key -> Value \cup {NoValue}]
         /\ \A k \in Key : k \in Promise!CachedIn(MapOf(c)) <=> \E a \in c.set : c.node[a].key = k
         /\ \A k \in Key : k \in Promise!CachedIn(MapOf(c)) <=> FindByKey(c, k) # NullPtr
         /\ \A a \in c.set : c.node[a].key \in Key /\ MapOf(c)[c.node[a].key] = c.node[a].value
<1>1. \A a \in c.set : /\ c.node[a].key \in Key /\ c.node[a].value \in Value
                       /\ ValueOf(c, c.node[a].key) = c.node[a].value
  BY FindsTheKey DEF ValueOf, Keyed
<1>2. \A k \in Key : \/ \E a \in c.set : c.node[a].key = k /\ FindByKey(c, k) # NullPtr
                     \/ /\ ~ \E a \in c.set : c.node[a].key = k
                        /\ ValueOf(c, k) = NoValue /\ FindByKey(c, k) = NullPtr
  BY FindsTheKey DEF ValueOf
<1>. QED  BY <1>1, <1>2, LruAssumption DEF MapOf, Promise!CachedIn

LEMMA ListFacts ==
  ASSUME NEW c \in CacheType, Keyed(c), NEW list, Lists(c, list)
  PROVE  /\ Chain(c) = list
         /\ KeysOf(c, list) \in Seq(Key) /\ Len(KeysOf(c, list)) = Len(list)
         /\ \A i, j \in 1..Len(list) : KeysOf(c, list)[i] = KeysOf(c, list)[j] => i = j
         /\ ListOrder(c) = SeqOrder(KeysOf(c, list))
         /\ Promise!CachedIn(MapOf(c)) = {KeysOf(c, list)[i] : i \in 1..Len(list)}
<1>1. Chain(c) = list /\ list \in Seq(Addr)
  BY ChainIsList DEF Lists
<1>2. \A i \in 1..Len(list) : list[i] \in c.set /\ c.node[list[i]].key \in Key
  BY <1>1 DEF Lists, Keyed
<1>3. KeysOf(c, list) \in Seq(Key) /\ Len(KeysOf(c, list)) = Len(list)
  BY <1>1, <1>2 DEF KeysOf
<1>4. \A i, j \in 1..Len(list) : KeysOf(c, list)[i] = KeysOf(c, list)[j] => i = j
  BY <1>1, <1>2 DEF KeysOf, Lists, Keyed, Linked
<1>5. ListOrder(c) = SeqOrder(KeysOf(c, list))
  <2>1. \A i \in 1..Len(list) : KeysOf(c, list)[i] = c.node[list[i]].key
    BY DEF KeysOf
  <2>2. ListOrder(c) = {p \in Key \X Key : \E i, j \in 1..Len(list) :
                          i < j /\ p = <<c.node[list[i]].key, c.node[list[j]].key>>}
    BY <1>1 DEF ListOrder
  <2>3. ASSUME NEW p \in Key \X Key
        PROVE  /\ p \in ListOrder(c) <=> \E i, j \in 1..Len(list) :
                    i < j /\ p = <<c.node[list[i]].key, c.node[list[j]].key>>
               /\ p \in SeqOrder(KeysOf(c, list)) <=> \E i, j \in 1..Len(list) :
                    i < j /\ p = <<c.node[list[i]].key, c.node[list[j]].key>>
    <3> HIDE DEF KeysOf
    <3>1. p \in SeqOrder(KeysOf(c, list)) <=> \E i, j \in 1..Len(list) :
            i < j /\ p = <<KeysOf(c, list)[i], KeysOf(c, list)[j]>>
      BY <1>3 DEF SeqOrder
    <3>. QED  BY <2>1, <2>2, <3>1
  <2>4. ListOrder(c) \subseteq Key \X Key /\ SeqOrder(KeysOf(c, list)) \subseteq Key \X Key
    BY <2>2 DEF SeqOrder
  <2>. QED  BY ONLY <2>3, <2>4
<1>6. Promise!CachedIn(MapOf(c)) \subseteq Key
  BY DEF Promise!CachedIn
<1>7. ASSUME NEW k \in Key
      PROVE  k \in Promise!CachedIn(MapOf(c)) <=> \E i \in 1..Len(list) : c.node[list[i]].key = k
  BY <1>1, <1>2, MapFacts DEF Lists
<1>8. Promise!CachedIn(MapOf(c)) = {KeysOf(c, list)[i] : i \in 1..Len(list)}
  BY <1>2, <1>6, <1>7 DEF KeysOf
<1>. QED  BY <1>1, <1>3, <1>4, <1>5, <1>8

(* The keys of a list that has got one more entry. *)
LEMMA KeysOfAppend ==
  ASSUME NEW d, NEW list \in Seq(Addr), NEW a \in Addr, NEW s \in Seq(Key), NEW k \in Key,
         Len(s) = Len(list), \A j \in 1..Len(list) : d.node[list[j]].key = s[j], d.node[a].key = k
  PROVE  KeysOf(d, Append(list, a)) = Append(s, k)
<1> DEFINE n == Len(list)
           long == Append(list, a)
           more == Append(s, k)
<1>1. /\ n \in Nat /\ Len(long) = n + 1
      /\ \A j \in 1..n + 1 : long[j] = IF j <= n THEN list[j] ELSE a
  OBVIOUS
<1>2. /\ more \in Seq(Key) /\ Len(more) = n + 1
      /\ \A j \in 1..n + 1 : more[j] = IF j <= n THEN s[j] ELSE k
  OBVIOUS
<1> HIDE DEF long, more
<1>3. \A j \in 1..n + 1 : d.node[long[j]].key = more[j]
  BY <1>1, <1>2
<1>4. more = [j \in 1..n + 1 |-> more[j]]
  BY <1>1, <1>2
<1>5. more = [j \in 1..Len(long) |-> d.node[long[j]].key]
  BY <1>1, <1>3, <1>4
<1>. QED  BY <1>5 DEF KeysOf, long, more

-----------------------------------------------------------------------------
(* Each operation on the list is the operation on the map and the order. *)

(* remove(key) of a cached key. *)
LEMMA RemovedIsRemoved ==
  ASSUME NEW c, Sound(c), NEW k \in Key, FindByKey(c, k) # NullPtr
  PROVE  LET d == Removed(c, k)
         IN /\ Sound(d)
            /\ d.set = c.set \ {FindByKey(c, k)}
            /\ MapOf(d) = Promise!Without(MapOf(c), {k})
            /\ ListOrder(d) = Promise!Drop(ListOrder(c), {k})
<1> DEFINE a == FindByKey(c, k)
           d == Removed(c, k)
           x == [c EXCEPT !.set = @ \ {a}]
           y == DetachFromCache(x, a)
<1>0. /\ c \in CacheType /\ Keyed(c) /\ NullPtr \notin Addr
      /\ a \in c.set /\ a \in Addr /\ c.node[a].key = k
  BY FindsTheKey, CacheAssumption DEF Sound, CacheType
<1>1. PICK list : Lists(c, list)
  BY DEF Sound
<1>2. PICK i \in 1..Len(list) : list[i] = a
  BY <1>0, <1>1 DEF Lists
<1>3. /\ x \in CacheType /\ x.set = c.set \ {a} /\ x.node = c.node
      /\ x.oldest = c.oldest /\ x.youngest = c.youngest
  BY <1>0 DEF CacheType
<1>4. list \in Seq(Addr) /\ Linked(x, list)
  BY <1>1, <1>3 DEF Lists, Linked
<1> HIDE DEF x
<1>5. /\ y \in CacheType /\ y.set = x.set
      /\ \A b \in Addr : y.node[b].key = x.node[b].key /\ y.node[b].value = x.node[b].value
      /\ Cut(list, i) \in Seq(Addr)
      /\ Linked(y, Cut(list, i))
  BY <1>2, <1>3, <1>4, DetachLinked
<1>6. d = [y EXCEPT !.node[a] = Freed]
  BY DEF Removed, x
<1> HIDE DEF y, d
<1>7. /\ d \in CacheType /\ d.set = c.set \ {a}
      /\ d.oldest = y.oldest /\ d.youngest = y.youngest
      /\ \A b \in Addr \ {a} : d.node[b] = y.node[b]
  BY <1>0, <1>3, <1>5, <1>6 DEF CacheType, Freed, Entry, Pointer, NoKey
<1> DEFINE cut == Cut(list, i)
<1>8. /\ Len(list) \in Nat /\ Len(cut) = Len(list) - 1
      /\ \A j \in 1..Len(cut) : cut[j] = IF j < i THEN list[j] ELSE list[j + 1]
      /\ \A b : (\E j \in 1..Len(cut) : cut[j] = b) <=> b # list[i] /\ \E j \in 1..Len(list) : list[j] = b
  <2>1. \A h, j \in 1..Len(list) : list[h] = list[j] => h = j
    BY <1>4 DEF Linked
  <2> HIDE DEF a
  <2>2. /\ Len(Cut(list, i)) = Len(list) - 1
        /\ \A j \in 1..Len(Cut(list, i)) : Cut(list, i)[j] = IF j < i THEN list[j] ELSE list[j + 1]
        /\ \A b : (\E j \in 1..Len(Cut(list, i)) : Cut(list, i)[j] = b)
                   <=> b # list[i] /\ \E j \in 1..Len(list) : list[j] = b
    BY <1>2, <1>4, <2>1, CutFacts
  <2>3. Len(list) \in Nat
    BY <1>4
  <2>. QED  BY ONLY <2>2, <2>3 DEF cut
<1> HIDE DEF cut
<1>9. \A j \in 1..Len(cut) : cut[j] \in Addr \ {a}
  <2>1. \A j \in 1..Len(cut) : cut[j] \in Addr
    BY <1>5 DEF cut
  <2>. QED  BY <1>2, <1>8, <2>1
<1>10. Linked(d, cut)
  BY <1>5, <1>7, <1>9 DEF Linked, cut
<1>11. \A b : b \in d.set <=> \E j \in 1..Len(cut) : cut[j] = b
  BY <1>1, <1>2, <1>7, <1>8 DEF Lists
<1>12. Lists(d, cut)
  BY <1>5, <1>10, <1>11 DEF Lists, cut
<1>13. \A b \in d.set : /\ b \in c.set /\ d.node[b].key = c.node[b].key
                        /\ d.node[b].value = c.node[b].value
  <2>1. c.set \subseteq Addr
    BY <1>0 DEF CacheType
  <2>. QED  BY <2>1, <1>3, <1>5, <1>7
<1>14. Keyed(d)
  BY <1>13, <1>0 DEF Keyed
<1>15. Sound(d)
  BY <1>7, <1>12, <1>14 DEF Sound
<1>16. MapOf(d) = Promise!Without(MapOf(c), {k})
  <2>1. ASSUME NEW h \in Key PROVE ValueOf(d, h) = IF h = k THEN NoValue ELSE ValueOf(c, h)
    <3>1. CASE h = k
      <4>1. ~ \E b \in d.set : d.node[b].key = k
        BY <1>13, <1>7, <1>0 DEF Keyed
      <4>. QED  BY <4>1, <3>1 DEF ValueOf, FindByKey
    <3>2. CASE h # k /\ \E b \in d.set : d.node[b].key = h
      <4>1. PICK b \in d.set : d.node[b].key = h
        BY <3>2
      <4>2. FindByKey(d, h) = b /\ FindByKey(c, h) = b /\ b # NullPtr
        BY <4>1, <1>0, <1>7, <1>13, <1>14, FindsTheKey
      <4>. QED  BY <4>1, <4>2, <3>2, <1>13 DEF ValueOf
    <3>3. CASE h # k /\ ~ \E b \in d.set : d.node[b].key = h
      <4>1. ~ \E b \in c.set : c.node[b].key = h
        BY <3>3, <1>0, <1>7, <1>13
      <4>. QED  BY <4>1, <3>3 DEF ValueOf, FindByKey
    <3>. QED  BY <3>1, <3>2, <3>3
  <2>. QED  BY <2>1 DEF MapOf, Promise!Without
<1>17. ListOrder(d) = Promise!Drop(ListOrder(c), {k})
  <2>1. KeysOf(d, cut) = Cut(KeysOf(c, list), i)
    <3>1. \A j \in 1..Len(cut) : d.node[cut[j]].key = c.node[cut[j]].key
      BY <1>9, <1>3, <1>5, <1>7
    <3>2. Len(KeysOf(c, list)) = Len(list)
      BY <1>8 DEF KeysOf
    <3>3. \A j \in 1..Len(cut) : c.node[cut[j]].key = IF j < i THEN KeysOf(c, list)[j] ELSE KeysOf(c, list)[j + 1]
      BY <1>8 DEF KeysOf
    <3>. QED  BY <3>1, <3>2, <3>3, <1>8 DEF KeysOf, Cut
  <2>2. KeysOf(c, list)[i] = k
    BY <1>0, <1>2 DEF KeysOf
  <2>. QED  BY <2>1, <2>2, <1>0, <1>1, <1>2, <1>7, <1>12, <1>14, ListFacts, CutOrder
<1>. QED  BY <1>7, <1>15, <1>16, <1>17 DEF d

(* get(key) of a cached key: the entry goes to the young end. *)
LEMMA TouchedIsYoungest ==
  ASSUME NEW c, Sound(c), NEW k \in Key, FindByKey(c, k) # NullPtr
  PROVE  LET a == FindByKey(c, k)
             d == AttachToCache(DetachFromCache(c, a), a)
         IN /\ Sound(d)
            /\ d.set = c.set
            /\ MapOf(d) = MapOf(c)
            /\ ListOrder(d) = Promise!MakeYoungest(ListOrder(c), Promise!CachedIn(MapOf(c)), k)
<1> DEFINE a == FindByKey(c, k)
           x == DetachFromCache(c, a)
           d == AttachToCache(x, a)
<1>0. /\ c \in CacheType /\ Keyed(c) /\ NullPtr \notin Addr
      /\ a \in c.set /\ a \in Addr /\ c.node[a].key = k
  BY FindsTheKey, CacheAssumption DEF Sound, CacheType
<1>1. PICK list : Lists(c, list)
  BY DEF Sound
<1>2. PICK i \in 1..Len(list) : list[i] = a
  BY <1>0, <1>1 DEF Lists
<1> DEFINE cut == Cut(list, i)
           long == Append(cut, a)
<1>3. list \in Seq(Addr) /\ Linked(c, list)
  BY <1>1 DEF Lists
<1>4. /\ x \in CacheType /\ x.set = c.set
      /\ \A b \in Addr : x.node[b].key = c.node[b].key /\ x.node[b].value = c.node[b].value
      /\ x.node[a].parent = NullPtr /\ x.node[a].child = NullPtr
      /\ cut \in Seq(Addr)
      /\ Linked(x, cut)
  BY <1>0, <1>2, <1>3, DetachLinked
<1>5. /\ Len(list) \in Nat /\ Len(cut) = Len(list) - 1
      /\ \A j \in 1..Len(cut) : cut[j] = IF j < i THEN list[j] ELSE list[j + 1]
      /\ \A b : (\E j \in 1..Len(cut) : cut[j] = b) <=> b # list[i] /\ \E j \in 1..Len(list) : list[j] = b
  <2>1. \A h, j \in 1..Len(list) : list[h] = list[j] => h = j
    BY <1>3 DEF Linked
  <2> HIDE DEF a, x
  <2>2. /\ Len(Cut(list, i)) = Len(list) - 1
        /\ \A j \in 1..Len(Cut(list, i)) : Cut(list, i)[j] = IF j < i THEN list[j] ELSE list[j + 1]
        /\ \A b : (\E j \in 1..Len(Cut(list, i)) : Cut(list, i)[j] = b)
                   <=> b # list[i] /\ \E j \in 1..Len(list) : list[j] = b
    BY <1>2, <1>3, <2>1, CutFacts
  <2> HIDE DEF cut
  <2>. QED  BY <1>3, <2>2 DEF cut
<1> HIDE DEF x, cut
<1>6. /\ d \in CacheType /\ d.set = x.set
      /\ \A b \in Addr : d.node[b].key = x.node[b].key /\ d.node[b].value = x.node[b].value
      /\ long \in Seq(Addr)
      /\ Linked(d, long)
  BY <1>0, <1>2, <1>4, <1>5, AttachLinked
<1>7. /\ Len(long) = Len(list)
      /\ \A j \in 1..Len(cut) : long[j] = cut[j]
      /\ long[Len(list)] = a
  BY <1>4, <1>5, <1>0
<1> HIDE DEF d, long
<1>8. \A b : b \in d.set <=> \E j \in 1..Len(long) : long[j] = b
  <2>1. \A b : (\E j \in 1..Len(long) : long[j] = b) <=> b = a \/ \E j \in 1..Len(cut) : cut[j] = b
    BY <1>5, <1>7
  <2>. QED  BY <2>1, <1>0, <1>1, <1>2, <1>4, <1>5, <1>6 DEF Lists
<1>9. Lists(d, long)
  BY <1>6, <1>8 DEF Lists
<1>10. /\ c.set \subseteq Addr /\ d.set = c.set
       /\ \A b \in Addr : d.node[b].key = c.node[b].key /\ d.node[b].value = c.node[b].value
  BY <1>0, <1>4, <1>6 DEF CacheType
<1>11. Keyed(d) /\ Sound(d)
  BY <1>0, <1>6, <1>9, <1>10 DEF Keyed, Sound
<1>12. MapOf(d) = MapOf(c)
  <2>1. ASSUME NEW h \in Key PROVE ValueOf(d, h) = ValueOf(c, h)
    <3>1. CASE \E b \in c.set : c.node[b].key = h
      <4>1. PICK b \in c.set : c.node[b].key = h
        BY <3>1
      <4>2. FindByKey(d, h) = b /\ FindByKey(c, h) = b /\ b # NullPtr
        BY <4>1, <1>0, <1>6, <1>10, <1>11, FindsTheKey
      <4>. QED  BY <4>1, <4>2, <1>10 DEF ValueOf
    <3>2. CASE ~ \E b \in c.set : c.node[b].key = h
      <4>1. ~ \E b \in d.set : d.node[b].key = h
        BY <3>2, <1>10
      <4>. QED  BY <4>1, <3>2 DEF ValueOf, FindByKey
    <3>. QED  BY <3>1, <3>2
  <2>. QED  BY <2>1 DEF MapOf
<1>13. ListOrder(d) = Promise!MakeYoungest(ListOrder(c), Promise!CachedIn(MapOf(c)), k)
  <2> DEFINE keys == KeysOf(c, list)
             shorter == Cut(keys, i)
  <2>1. /\ keys \in Seq(Key) /\ Len(keys) = Len(list)
        /\ \A j, h \in 1..Len(list) : keys[j] = keys[h] => j = h
        /\ ListOrder(c) = SeqOrder(keys)
        /\ Promise!CachedIn(MapOf(c)) = {keys[j] : j \in 1..Len(list)}
        /\ keys[i] = k
        /\ ListOrder(d) = SeqOrder(KeysOf(d, long))
    BY <1>0, <1>1, <1>2, <1>6, <1>9, <1>11, ListFacts DEF KeysOf
  <2>2. /\ shorter \in Seq(Key) /\ Len(shorter) = Len(cut)
        /\ \A j \in 1..Len(cut) : shorter[j] = IF j < i THEN keys[j] ELSE keys[j + 1]
        /\ \A h : (\E j \in 1..Len(shorter) : shorter[j] = h) <=> h # k /\ \E j \in 1..Len(list) : keys[j] = h
    <3> HIDE DEF keys
    <3>1. i \in 1..Len(keys) /\ \A h, j \in 1..Len(keys) : keys[h] = keys[j] => h = j
      BY <2>1
    <3>2. /\ shorter \in Seq(Key) /\ Len(shorter) = Len(keys) - 1
          /\ \A j \in 1..Len(shorter) : shorter[j] = IF j < i THEN keys[j] ELSE keys[j + 1]
          /\ \A h : (\E j \in 1..Len(shorter) : shorter[j] = h) <=> h # keys[i] /\ \E j \in 1..Len(keys) : keys[j] = h
      BY <2>1, <3>1, CutFacts
    <3> HIDE DEF shorter
    <3>. QED  BY <2>1, <3>2, <1>5
  <2> HIDE DEF shorter
  <2>3. KeysOf(d, long) = Append(shorter, k)
    <3>1. \A j \in 1..Len(list) : list[j] \in Addr /\ c.node[list[j]].key = keys[j]
      BY <1>3 DEF KeysOf
    <3>2. \A j \in 1..Len(cut) : cut[j] \in Addr /\ c.node[cut[j]].key = shorter[j]
      <4> SUFFICES ASSUME NEW j \in 1..Len(cut)
                   PROVE  cut[j] \in Addr /\ c.node[cut[j]].key = shorter[j]
        OBVIOUS
      <4> HIDE DEF keys
      <4>1. CASE j < i
        BY <4>1, <3>1, <2>2, <1>5
      <4>2. CASE ~ (j < i)
        BY <4>2, <3>1, <2>2, <1>5
      <4>. QED  BY <4>1, <4>2
    <3>3. \A j \in 1..Len(cut) : d.node[cut[j]].key = shorter[j]
      BY <3>2, <1>10
    <3>4. d.node[a].key = k
      BY <1>0, <1>10
    <3> HIDE DEF keys, a
    <3>5. a \in Addr /\ cut \in Seq(Addr) /\ shorter \in Seq(Key) /\ Len(shorter) = Len(cut)
      BY <1>0, <1>4, <2>2
    <3>6. KeysOf(d, Append(cut, a)) = Append(shorter, k)
      BY ONLY <3>3, <3>4, <3>5, k \in Key, KeysOfAppend
    <3>. QED  BY <3>6 DEF long
  <2>4. SeqOrder(shorter) = Promise!Drop(SeqOrder(keys), {k})
    BY <2>1, CutOrder DEF shorter
  <2>5. {shorter[j] : j \in 1..Len(shorter)} = {keys[j] : j \in 1..Len(list)} \ {k}
    <3> HIDE DEF keys
    <3>1. \A h : (\E j \in 1..Len(shorter) : shorter[j] = h) <=> h # k /\ \E j \in 1..Len(list) : keys[j] = h
      BY <2>2
    <3>. QED  BY ONLY <3>1
  <2> HIDE DEF keys, shorter
  <2>6. SeqOrder(Append(shorter, k)) = SeqOrder(shorter) \cup ({shorter[j] : j \in 1..Len(shorter)} \X {k})
    BY <2>2, AppendOrder
  <2>. QED  BY <2>1, <2>3, <2>4, <2>5, <2>6 DEF Promise!MakeYoungest
<1>. QED  BY <1>10, <1>11, <1>12, <1>13 DEF d, x

(* put of a key that is not cached. *)
LEMMA InsertedIsYoungest ==
  ASSUME NEW c, Sound(c), NEW k \in Key, NEW v \in Value, FindByKey(c, k) = NullPtr,
         NEW a \in Addr, a \notin c.set
  PROVE  LET d == Inserted(c, a, k, v)
         IN /\ Sound(d)
            /\ d.set = c.set \cup {a}
            /\ MapOf(d) = [MapOf(c) EXCEPT ![k] = v]
            /\ ListOrder(d) = Promise!MakeYoungest(ListOrder(c), Promise!CachedIn(MapOf(c)), k)
<1> DEFINE x == [c EXCEPT !.set = @ \cup {a}, !.node[a] = NewEntry(k, v)]
           d == AttachToCache(x, a)
<1>0. /\ c \in CacheType /\ Keyed(c) /\ NullPtr \notin Addr /\ c.set \subseteq Addr
      /\ \A b \in c.set : c.node[b].key # k
  BY FindsTheKey, CacheAssumption DEF Sound, CacheType
<1>1. PICK list : Lists(c, list)
  BY DEF Sound
<1>2. /\ list \in Seq(Addr) /\ Len(list) \in Nat
      /\ \A j \in 1..Len(list) : list[j] \in c.set /\ list[j] # a /\ list[j] \in Addr
  BY <1>1, <1>0 DEF Lists
<1>3. /\ x \in CacheType /\ x.set = c.set \cup {a}
      /\ x.oldest = c.oldest /\ x.youngest = c.youngest
      /\ \A b \in Addr \ {a} : x.node[b] = c.node[b]
      /\ x.node[a] = NewEntry(k, v)
  BY <1>0 DEF CacheType, NewEntry, Entry, Pointer
<1> HIDE DEF x
<1>4. Linked(x, list)
  BY <1>1, <1>2, <1>3 DEF Lists, Linked
<1>5. x.node[a].key = k /\ x.node[a].value = v /\ x.node[a].parent = NullPtr /\ x.node[a].child = NullPtr
  BY <1>3 DEF NewEntry
<1> DEFINE long == Append(list, a)
<1>6. /\ d \in CacheType /\ d.set = x.set
      /\ \A b \in Addr : d.node[b].key = x.node[b].key /\ d.node[b].value = x.node[b].value
      /\ long \in Seq(Addr)
      /\ Linked(d, long)
  BY <1>2, <1>3, <1>4, <1>5, AttachLinked
<1>7. \A b : (\E j \in 1..Len(long) : long[j] = b) <=> b = a \/ \E j \in 1..Len(list) : list[j] = b
  <2>1. /\ Len(long) = Len(list) + 1
        /\ \A j \in 1..Len(list) : long[j] = list[j]
        /\ long[Len(list) + 1] = a
    BY <1>2
  <2> HIDE DEF long
  <2>2. \A j \in 1..Len(long) : j \in 1..Len(list) \/ j = Len(list) + 1
    BY <2>1, <1>2
  <2>3. Len(list) + 1 \in 1..Len(long) /\ \A j \in 1..Len(list) : j \in 1..Len(long)
    BY <2>1, <1>2
  <2>. QED  BY <2>1, <2>2, <2>3
<1> HIDE DEF d, long
<1>8. Lists(d, long)
  BY <1>1, <1>3, <1>6, <1>7 DEF Lists
<1>9. /\ d.set = c.set \cup {a}
      /\ d.node[a].key = k /\ d.node[a].value = v
      /\ \A b \in Addr \ {a} : d.node[b].key = c.node[b].key /\ d.node[b].value = c.node[b].value
  BY <1>3, <1>5, <1>6
<1>10. Keyed(d) /\ Sound(d)
  BY <1>0, <1>6, <1>8, <1>9 DEF Keyed, Sound
<1>11. MapOf(d) = [MapOf(c) EXCEPT ![k] = v]
  <2>1. ASSUME NEW h \in Key PROVE ValueOf(d, h) = IF h = k THEN v ELSE ValueOf(c, h)
    <3>1. CASE h = k
      <4>1. FindByKey(d, h) = a /\ a # NullPtr
        BY <3>1, <1>0, <1>6, <1>9, <1>10, FindsTheKey
      <4>. QED  BY <4>1, <3>1, <1>9 DEF ValueOf
    <3>2. CASE h # k /\ \E b \in c.set : c.node[b].key = h
      <4>1. PICK b \in c.set : c.node[b].key = h
        BY <3>2
      <4>2. b \in d.set /\ d.node[b].key = h /\ d.node[b].value = c.node[b].value
        BY <4>1, <1>0, <1>9
      <4>3. FindByKey(d, h) = b /\ FindByKey(c, h) = b /\ b # NullPtr
        BY <4>1, <4>2, <1>0, <1>6, <1>10, FindsTheKey
      <4>. QED  BY <4>2, <4>3, <3>2 DEF ValueOf
    <3>3. CASE h # k /\ ~ \E b \in c.set : c.node[b].key = h
      <4>1. ~ \E b \in d.set : d.node[b].key = h
        BY <3>3, <1>0, <1>9
      <4>. QED  BY <4>1, <3>3 DEF ValueOf, FindByKey
    <3>. QED  BY <3>1, <3>2, <3>3
  <2>. QED  BY <2>1 DEF MapOf
<1>12. ListOrder(d) = Promise!MakeYoungest(ListOrder(c), Promise!CachedIn(MapOf(c)), k)
  <2> DEFINE keys == KeysOf(c, list)
  <2>1. /\ keys \in Seq(Key) /\ Len(keys) = Len(list)
        /\ ListOrder(c) = SeqOrder(keys)
        /\ Promise!CachedIn(MapOf(c)) = {keys[j] : j \in 1..Len(list)}
        /\ ListOrder(d) = SeqOrder(KeysOf(d, long))
    BY <1>0, <1>1, <1>6, <1>8, <1>10, ListFacts
  <2>2. \A j \in 1..Len(list) : keys[j] = c.node[list[j]].key /\ keys[j] = d.node[list[j]].key /\ keys[j] # k
    BY <1>0, <1>2, <1>9 DEF KeysOf
  <2> HIDE DEF keys
  <2>3. KeysOf(d, long) = Append(keys, k)
    <3>1. a \in Addr /\ list \in Seq(Addr) /\ keys \in Seq(Key) /\ Len(keys) = Len(list)
      BY <1>2, <2>1
    <3>3. \A j \in 1..Len(list) : d.node[list[j]].key = keys[j]
      BY <2>2
    <3>4. d.node[a].key = k
      BY <1>9
    <3>2. KeysOf(d, Append(list, a)) = Append(keys, k)
      BY ONLY <3>1, <3>3, <3>4, k \in Key, KeysOfAppend
    <3>. QED  BY <3>2 DEF long
  <2>4. SeqOrder(Append(keys, k)) = SeqOrder(keys) \cup ({keys[j] : j \in 1..Len(keys)} \X {k})
    BY <2>1, AppendOrder
  <2>5. Promise!Drop(SeqOrder(keys), {k}) = SeqOrder(keys)
    BY <2>1, <2>2 DEF Promise!Drop, SeqOrder
  <2>6. k \notin Promise!CachedIn(MapOf(c))
    BY <2>1, <2>2
  <2>. QED  BY <2>1, <2>3, <2>4, <2>5, <2>6 DEF Promise!MakeYoungest
<1>. QED  BY <1>9, <1>10, <1>11, <1>12 DEF d, x, Inserted

(* The new or cleared cache. *)
LEMMA EmptyIsSound ==
  Sound(Empty) /\ MapOf(Empty) = [k \in Key |-> NoValue] /\ ListOrder(Empty) = {}
<1>1. Empty \in CacheType /\ Empty.set = {} /\ Empty.oldest = NullPtr /\ Empty.youngest = NullPtr
  BY DEF Empty, CacheType, Freed, Entry, Pointer, NoKey
<1>2. Keyed(Empty) /\ Lists(Empty, << >>)
  BY <1>1 DEF Keyed, Lists, Linked
<1>3. ListOrder(Empty) = {}
  <2>1. ListOrder(Empty) = SeqOrder(KeysOf(Empty, << >>)) /\ Len(KeysOf(Empty, << >>)) = Len(<< >>)
    BY <1>1, <1>2, ListFacts
  <2>. QED  BY <2>1 DEF SeqOrder
<1>4. MapOf(Empty) = [k \in Key |-> NoValue]
  BY <1>1 DEF MapOf, ValueOf, FindByKey
<1>. QED  BY <1>1, <1>2, <1>3, <1>4 DEF Sound

(* What mOldest designates is the one key that no other is older than. *)
OldestIn(c) == {k \in Promise!CachedIn(MapOf(c)) :
                  Promise!IsOldest(ListOrder(c), Promise!CachedIn(MapOf(c)), k)}

LEMMA OldestIsFirst ==
  ASSUME NEW c, Sound(c)
  PROVE  /\ c.oldest = NullPtr => OldestIn(c) = {} /\ c.set = {}
         /\ c.oldest # NullPtr => /\ c.oldest \in c.set
                                 /\ OldestIn(c) = {c.node[c.oldest].key}
<1>0. c \in CacheType /\ Keyed(c) /\ NullPtr \notin Addr
  BY CacheAssumption DEF Sound
<1>1. PICK list : Lists(c, list)
  BY DEF Sound
<1> DEFINE keys == KeysOf(c, list)
           S0 == Promise!CachedIn(MapOf(c))
<1>2. /\ list \in Seq(Addr) /\ Len(list) \in Nat /\ (list = << >> <=> Len(list) = 0)
      /\ keys \in Seq(Key) /\ Len(keys) = Len(list)
      /\ \A i, j \in 1..Len(list) : keys[i] = keys[j] => i = j
      /\ ListOrder(c) = SeqOrder(keys)
      /\ S0 = {keys[i] : i \in 1..Len(list)}
  BY <1>0, <1>1, ListFacts DEF Lists
<1>3. CASE list = << >>
  <2>1. c.oldest = NullPtr /\ c.set = {} /\ S0 = {}
    BY <1>1, <1>2, <1>3 DEF Lists, Linked
  <2>. QED  BY <2>1 DEF OldestIn
<1>4. CASE list # << >>
  <2>1. /\ 1 \in 1..Len(list) /\ c.oldest = list[1] /\ c.oldest # NullPtr
        /\ c.oldest \in c.set /\ c.node[c.oldest].key = keys[1] /\ keys[1] \in S0
    <3>1. 1 \in 1..Len(list) /\ list[1] \in Addr
      BY <1>2, <1>4
    <3>2. c.oldest = list[1] /\ list[1] \in c.set
      BY <1>1, <1>4, <3>1 DEF Lists, Linked
    <3>3. c.node[list[1]].key = keys[1]
      BY <3>1 DEF KeysOf
    <3> HIDE DEF keys
    <3>. QED  BY <1>0, <1>2, <3>1, <3>2, <3>3
  <2> HIDE DEF keys
  <2>2. ASSUME NEW j \in 1..Len(list), j # 1
        PROVE  <<keys[1], keys[j]>> \in SeqOrder(keys)
    <3>1. <<keys[1], keys[j]>> \in Key \X Key /\ 1 < j
      BY <1>2, <2>1, <2>2
    <3>. QED  BY <3>1, <2>1, <1>2 DEF SeqOrder
  <2>3. Promise!IsOldest(SeqOrder(keys), S0, keys[1])
    BY <2>1, <2>2, <1>2 DEF Promise!IsOldest
  <2>4. ASSUME NEW j \in 1..Len(list), Promise!IsOldest(SeqOrder(keys), S0, keys[j])
        PROVE  j = 1
    <3>1. SUFFICES ASSUME j # 1 PROVE FALSE
      OBVIOUS
    <3>2. <<keys[j], keys[1]>> \in SeqOrder(keys)
      BY <2>1, <2>4, <3>1, <1>2 DEF Promise!IsOldest
    <3>3. PICK x, y \in 1..Len(list) : x < y /\ keys[x] = keys[j] /\ keys[y] = keys[1]
      BY <3>2, <1>2 DEF SeqOrder
    <3>. QED  BY <3>3, <1>2, <2>1
  <2>5. \A k \in S0 : Promise!IsOldest(SeqOrder(keys), S0, k) <=> k = keys[1]
    <3> HIDE DEF S0
    <3>. QED  BY <2>1, <2>3, <2>4, <1>2
  <2>6. OldestIn(c) = {keys[1]}
    BY <2>1, <2>5, <1>2 DEF OldestIn
  <2>. QED  BY <2>1, <2>6
<1>. QED  BY <1>3, <1>4

(* removeOldest removes the entry of the oldest key. *)
LEMMA EvictedIsOldest ==
  ASSUME NEW c, Sound(c)
  PROVE  LET d == WithoutOldest(c)
             a == Doomed(c)
         IN /\ Sound(d)
            /\ MapOf(d) = Promise!Without(MapOf(c), OldestIn(c))
            /\ ListOrder(d) = Promise!Drop(ListOrder(c), OldestIn(c))
            /\ a = NullPtr => OldestIn(c) = {} /\ d = c
            /\ a # NullPtr => a \in c.set /\ OldestIn(c) = {c.node[a].key} /\ d.set = c.set \ {a}
<1>0. c \in CacheType /\ Keyed(c) /\ NullPtr \notin Addr
  BY CacheAssumption DEF Sound
<1>1. CASE c.oldest = NullPtr
  <2>1. OldestIn(c) = {} /\ WithoutOldest(c) = c /\ Doomed(c) = NullPtr
    BY <1>1, OldestIsFirst DEF WithoutOldest, Doomed
  <2>2. MapOf(c) = Promise!Without(MapOf(c), {})
    BY DEF Promise!Without, MapOf
  <2>3. ListOrder(c) = Promise!Drop(ListOrder(c), {})
    BY DEF Promise!Drop
  <2>. QED  BY <2>1, <2>2, <2>3
<1>2. CASE c.oldest # NullPtr
  <2> DEFINE k == c.node[c.oldest].key
  <2>1. c.oldest \in c.set /\ OldestIn(c) = {k} /\ k \in Key
    BY <1>0, <1>2, OldestIsFirst DEF Keyed
  <2>2. WithoutOldest(c) = Removed(c, k) /\ Doomed(c) = FindByKey(c, k)
    BY <1>2 DEF WithoutOldest, Doomed
  <2>3. FindByKey(c, k) = c.oldest
    BY <1>0, <2>1, FindsTheKey
  <2> HIDE DEF k
  <2>4. FindByKey(c, k) # NullPtr
    BY <2>3, <1>2
  <2>. QED  BY <2>1, <2>2, <2>3, <2>4, <1>2, RemovedIsRemoved DEF k
<1>. QED  BY <1>1, <1>2

(* There are as many entries as cached keys. *)
LEMMA SameSize ==
  ASSUME NEW c, Sound(c)
  PROVE  Cardinality(c.set) = Cardinality(Promise!CachedIn(MapOf(c)))
<1> DEFINE f == [a \in c.set |-> c.node[a].key]
           keys == Promise!CachedIn(MapOf(c))
<1>0. c \in CacheType /\ Keyed(c)
  BY DEF Sound
<1>1. IsFiniteSet(c.set)
  BY <1>0, CacheAssumption, FS_Subset DEF CacheType
<1>2. keys \subseteq Key
  BY DEF Promise!CachedIn
<1>3. \A k \in Key : k \in keys <=> \E a \in c.set : c.node[a].key = k
  BY <1>0, MapFacts
<1>4. \A a \in c.set : c.node[a].key \in keys
  BY <1>0, MapFacts DEF Keyed
<1> HIDE DEF keys
<1>5. f \in [c.set -> keys]
  BY <1>4
<1>6. f \in Bijection(c.set, keys)
  BY <1>0, <1>2, <1>3, <1>5 DEF Bijection, Injection, Surjection, IsInjective, Keyed
<1>7. ExistsBijection(c.set, keys)
  BY <1>6 DEF ExistsBijection
<1>. QED  BY <1>1, <1>7, FS_Bijection DEF keys

-----------------------------------------------------------------------------
(* What the listener hears. *)
LEMMA ToldOfOne ==
  ASSUME Sound(cache), NEW a, a = NullPtr \/ a \in cache.set, Report(ListOf(a))
  PROVE  /\ calls' \in Seq(Key \X Value) /\ ToldOnce'
         /\ S!ToSet(calls') = IF mListener /\ a # NullPtr
                             THEN {<<cache.node[a].key, MapOf(cache)[cache.node[a].key]>>} ELSE {}
<1>0. cache \in CacheType /\ Keyed(cache)
  BY DEF Sound
<1>1. CASE ~ mListener \/ a = NullPtr
  <2>1. calls' = << >>
    BY <1>1 DEF Report, ListOf
  <2>. QED  BY <2>1, <1>1 DEF ToldOnce, S!IsInjective, S!ToSet
<1>2. CASE mListener /\ a # NullPtr
  <2> DEFINE p == <<cache.node[a].key, cache.node[a].value>>
  <2>1. p \in Key \X Value /\ MapOf(cache)[cache.node[a].key] = cache.node[a].value
    BY <1>0, <1>2, MapFacts DEF Keyed
  <2>2. calls' = <<p>>
    BY <1>2 DEF Report, ListOf
  <2> HIDE DEF p
  <2>3. DOMAIN calls' = {1} /\ calls'[1] = p
    BY <2>2
  <2>4. calls' \in Seq(Key \X Value)
    BY <2>1, <2>2
  <2>5. ToldOnce' /\ S!ToSet(calls') = {p}
    BY <2>3 DEF ToldOnce, S!IsInjective, S!ToSet
  <2>. QED  BY <1>2, <2>1, <2>4, <2>5 DEF p
<1>. QED  BY <1>1, <1>2

LEMMA ToldOfAll ==
  ASSUME Sound(cache), Report(Chain(cache))
  PROVE  /\ calls' \in Seq(Key \X Value) /\ ToldOnce'
         /\ S!ToSet(calls') = IF mListener
                             THEN {<<k, MapOf(cache)[k]>> : k \in Promise!CachedIn(MapOf(cache))} ELSE {}
<1>0. cache \in CacheType /\ Keyed(cache)
  BY DEF Sound
<1>1. PICK list : Lists(cache, list)
  BY DEF Sound
<1> DEFINE keys == KeysOf(cache, list)
<1>2. /\ Chain(cache) = list /\ list \in Seq(Addr) /\ Len(list) \in Nat /\ DOMAIN list = 1..Len(list)
      /\ \A i, j \in 1..Len(list) : keys[i] = keys[j] => i = j
      /\ Promise!CachedIn(MapOf(cache)) = {keys[i] : i \in 1..Len(list)}
  BY <1>0, <1>1, ListFacts DEF Lists
<1>3. \A i \in 1..Len(list) : /\ keys[i] = cache.node[list[i]].key /\ keys[i] \in Key
                              /\ MapOf(cache)[keys[i]] = cache.node[list[i]].value
                              /\ cache.node[list[i]].value \in Value
  BY <1>0, <1>1, <1>2, MapFacts DEF KeysOf, Lists, Keyed
<1> HIDE DEF keys
<1>4. CASE mListener
  <2>1. calls' = [i \in 1..Len(list) |-> <<cache.node[list[i]].key, cache.node[list[i]].value>>]
    BY <1>2, <1>4 DEF Report
  <2>2. /\ DOMAIN calls' = 1..Len(list)
        /\ \A i \in 1..Len(list) : calls'[i] = <<keys[i], MapOf(cache)[keys[i]]>>
    BY <1>3, <2>1
  <2>3. calls' \in Seq(Key \X Value)
    BY <1>2, <1>3, <2>1
  <2>4. ToldOnce'
    BY <1>2, <2>2 DEF ToldOnce, S!IsInjective
  <2>5. S!ToSet(calls') = {<<k, MapOf(cache)[k]>> : k \in {keys[i] : i \in 1..Len(list)}}
    <3> DEFINE told == calls'
               all == {<<k, MapOf(cache)[k]>> : k \in {keys[i] : i \in 1..Len(list)}}
    <3>1. S!ToSet(told) = {told[i] : i \in 1..Len(list)}
      BY <2>2 DEF S!ToSet
    <3>2. \A i \in 1..Len(list) : told[i] = <<keys[i], MapOf(cache)[keys[i]]>>
      BY <2>2
    <3> HIDE DEF told
    <3>3. \A p : p \in all <=> \E i \in 1..Len(list) : p = <<keys[i], MapOf(cache)[keys[i]]>>
      OBVIOUS
    <3>4. \A p : p \in S!ToSet(told) <=> \E i \in 1..Len(list) : p = <<keys[i], MapOf(cache)[keys[i]]>>
      BY <3>1, <3>2
    <3> HIDE DEF all
    <3>5. S!ToSet(told) = all
      BY <3>3, <3>4
    <3>. QED  BY <3>5 DEF told, all
  <2>. QED  BY <1>2, <1>4, <2>3, <2>4, <2>5
<1>5. CASE ~ mListener
  <2>1. calls' = << >>
    BY <1>5 DEF Report
  <2>. QED  BY <2>1, <1>5 DEF ToldOnce, S!IsInjective, S!ToSet
<1>. QED  BY <1>4, <1>5

-----------------------------------------------------------------------------
(* Every operation keeps the invariant and is the operation on the map.    *)
LEMMA GetStep ==
  ASSUME Inv, NEW k \in Key, Get(k)
  PROVE  Inv' /\ Promise!Get(k)
<1> DEFINE a == FindByKey(cache, k)
<1>0. cache \in CacheType /\ Keyed(cache) /\ Sound(cache)
  BY DEF Inv, Sound
<1>1. calls' = << >> /\ mListener' = mListener /\ calls' \in Seq(Key \X Value) /\ ToldOnce' /\ S!ToSet(calls') = {}
  BY DEF Get, ToldOnce, S!IsInjective, S!ToSet
<1>2. k \in Promise!CachedIn(MapOf(cache)) <=> a # NullPtr
  BY <1>0, MapFacts
<1>3. CASE a = NullPtr
  <2>1. ret' = NoValue /\ cache' = cache /\ MapOf(cache)[k] = NoValue
    BY <1>3 DEF Get, MapOf, ValueOf
  <2>2. Inv'
    BY <1>0, <1>1, <2>1 DEF Inv, TypeOK
  <2>3. Promise!Get(k)
    BY <1>1, <1>2, <1>3, <2>1 DEF Promise!Get, Promise!Cached, MapOf
  <2>. QED  BY <2>2, <2>3
<1>4. CASE a # NullPtr
  <2>1. /\ cache' = AttachToCache(DetachFromCache(cache, a), a)
        /\ ret' = cache.node[a].value /\ ret' = MapOf(cache)[k]
    BY <1>4 DEF Get, MapOf, ValueOf
  <2>2. /\ Sound(cache') /\ MapOf(cache') = MapOf(cache)
        /\ ListOrder(cache') = Promise!MakeYoungest(ListOrder(cache), Promise!CachedIn(MapOf(cache)), k)
    BY <1>0, <1>4, <2>1, TouchedIsYoungest
  <2>3. ret' \in Value \cup {NoValue}
    BY <1>0, <2>1, MapFacts
  <2>4. Inv'
    BY <1>1, <2>2, <2>3 DEF Inv, TypeOK, Sound, CacheType
  <2>5. Promise!Get(k)
    BY <1>1, <1>2, <1>4, <2>1, <2>2 DEF Promise!Get, Promise!Cached, MapOf
  <2>. QED  BY <2>4, <2>5
<1>. QED  BY <1>3, <1>4

LEMMA PutStep ==
  ASSUME Inv, NEW k \in Key, NEW v \in Value, Put(k, v)
  PROVE  Inv' /\ Promise!Put(k, v)
<1> DEFINE c == IF Full(cache) THEN WithoutOldest(cache) ELSE cache
           gone == IF Full(cache) THEN OldestIn(cache) ELSE {}
           told == IF Full(cache) THEN Doomed(cache) ELSE NullPtr
<1>0. cache \in CacheType /\ Keyed(cache) /\ Sound(cache) /\ mListener \in BOOLEAN
  BY DEF Inv, Sound, TypeOK
<1>1. Full(cache) <=> Promise!Full
  <2>1. Promise!Cached = Promise!CachedIn(MapOf(cache))
    BY DEF Promise!Cached, MapOf
  <2>2. Cardinality(cache.set) = Cardinality(Promise!Cached)
    BY <1>0, <2>1, SameSize
  <2>3. \A s : Cardinality(s) = Promise!Cardinality(s)
    BY DEF Cardinality, Promise!Cardinality
  <2>. QED  BY <2>2, <2>3 DEF Full, Promise!Full, kUnlimitedCapacity, Promise!kUnlimitedCapacity
<1>2. /\ Sound(c)
      /\ MapOf(c) = Promise!Without(MapOf(cache), gone)
      /\ ListOrder(c) = Promise!Drop(ListOrder(cache), gone)
      /\ told = NullPtr \/ told \in cache.set
      /\ gone = IF told = NullPtr THEN {} ELSE {cache.node[told].key}
  <2>1. CASE Full(cache)
    BY <2>1, <1>0, EvictedIsOldest
  <2>2. CASE ~ Full(cache)
    <3>1. MapOf(cache) = Promise!Without(MapOf(cache), {})
      BY DEF Promise!Without, MapOf
    <3>2. ListOrder(cache) = Promise!Drop(ListOrder(cache), {})
      BY DEF Promise!Drop
    <3>. QED  BY <2>2, <3>1, <3>2, <1>0
  <2>. QED  BY <2>1, <2>2
<1>3. Report(ListOf(told)) /\ mListener' = mListener
  <2>1. ListOf(told) = IF Full(cache) THEN ListOf(Doomed(cache)) ELSE << >>
    BY DEF ListOf
  <2>. QED  BY <2>1 DEF Put
<1>4. /\ calls' \in Seq(Key \X Value) /\ ToldOnce'
      /\ S!ToSet(calls') = IF mListener THEN {<<h, MapOf(cache)[h]>> : h \in gone} ELSE {}
  <2>1. /\ calls' \in Seq(Key \X Value) /\ ToldOnce'
        /\ S!ToSet(calls') = IF mListener /\ told # NullPtr
                            THEN {<<cache.node[told].key, MapOf(cache)[cache.node[told].key]>>} ELSE {}
    <3> HIDE DEF told
    <3>. QED  BY <1>0, <1>2, <1>3, ToldOfOne
  <2> HIDE DEF told, gone
  <2>. QED  BY <2>1, <1>2
<1>5. /\ \/ /\ FindByKey(c, k) # NullPtr
            /\ cache' = c
            /\ ret' = FALSE
         \/ /\ FindByKey(c, k) = NullPtr
            /\ \E a \in Addr \ c.set : cache' = Inserted(c, a, k, v)
            /\ ret' = TRUE
  BY DEF Put
<1>6. /\ gone = IF Promise!Full THEN Promise!Oldest ELSE {}
      /\ Promise!Report(gone)
  <2>1. Promise!Oldest = OldestIn(cache)
    BY DEF Promise!Oldest, OldestIn, Promise!Cached, MapOf
  <2>2. gone = IF Promise!Full THEN Promise!Oldest ELSE {}
    BY <1>1, <2>1
  <2> HIDE DEF gone
  <2>3. Promise!Report(gone)
    BY <1>4 DEF Promise!Report, MapOf
  <2>. QED  BY <2>2, <2>3
<1> HIDE DEF c, gone, told
<1>7. c \in CacheType /\ Keyed(c)
  BY <1>2 DEF Sound
<1>8. CASE FindByKey(c, k) # NullPtr
  <2>1. cache' = c /\ ret' = FALSE
    BY <1>5, <1>8
  <2>2. k \in Promise!CachedIn(MapOf(c))
    BY <1>7, <1>8, MapFacts
  <2>3. MapOf(c)[k] # NoValue
    BY <2>2 DEF Promise!CachedIn
  <2>4. Inv'
    BY <1>0, <1>2, <1>3, <1>4, <1>7, <2>1 DEF Inv, TypeOK, CacheType
  <2>5. Promise!Put(k, v)
    BY <1>2, <1>3, <1>6, <2>1, <2>3 DEF Promise!Put, MapOf
  <2>. QED  BY <2>4, <2>5
<1>9. CASE FindByKey(c, k) = NullPtr
  <2>1. PICK a \in Addr \ c.set : cache' = Inserted(c, a, k, v)
    BY <1>5, <1>9
  <2>2. ret' = TRUE
    BY <1>5, <1>9
  <2>3. MapOf(c)[k] = NoValue
    BY <1>9 DEF MapOf, ValueOf
  <2>4. a \in Addr /\ a \notin c.set
    BY <2>1
  <2>5. /\ Sound(cache') /\ MapOf(cache') = [MapOf(c) EXCEPT ![k] = v]
        /\ ListOrder(cache') = Promise!MakeYoungest(ListOrder(c), Promise!CachedIn(MapOf(c)), k)
    <3>1. Sound(c) /\ k \in Key /\ v \in Value
      BY <1>2
    <3>2. LET d == Inserted(c, a, k, v)
          IN /\ Sound(d)
             /\ d.set = c.set \cup {a}
             /\ MapOf(d) = [MapOf(c) EXCEPT ![k] = v]
             /\ ListOrder(d) = Promise!MakeYoungest(ListOrder(c), Promise!CachedIn(MapOf(c)), k)
      BY ONLY <3>1, <1>9, <2>4, InsertedIsYoungest
    <3>. QED  BY <2>1, <3>2
  <2>6. Inv'
    BY <1>0, <1>3, <1>4, <2>2, <2>5 DEF Inv, TypeOK, Sound, CacheType
  <2>7. Promise!Put(k, v)
    BY <1>2, <1>3, <1>6, <2>2, <2>3, <2>5 DEF Promise!Put, MapOf
  <2>. QED  BY <2>6, <2>7
<1>. QED  BY <1>8, <1>9

LEMMA RemoveStep ==
  ASSUME Inv, NEW k \in Key, Remove(k)
  PROVE  Inv' /\ Promise!Remove(k)
<1> DEFINE a == FindByKey(cache, k)
           gone == {k} \cap Promise!CachedIn(MapOf(cache))
<1>0. cache \in CacheType /\ Keyed(cache) /\ Sound(cache) /\ mListener \in BOOLEAN
  BY DEF Inv, Sound, TypeOK
<1>1. /\ cache' = Removed(cache, k) /\ ret' = (a # NullPtr) /\ mListener' = mListener
      /\ Report(ListOf(a))
  BY DEF Remove
<1>2. /\ k \in Promise!CachedIn(MapOf(cache)) <=> a # NullPtr
      /\ a # NullPtr => a \in cache.set /\ cache.node[a].key = k
  BY <1>0, MapFacts, FindsTheKey
<1>3. /\ Sound(cache')
      /\ MapOf(cache') = Promise!Without(MapOf(cache), gone)
      /\ ListOrder(cache') = Promise!Drop(ListOrder(cache), gone)
  <2>1. CASE a = NullPtr
    <3>1. cache' = cache /\ gone = {}
      BY <1>1, <1>2, <2>1 DEF Removed
    <3>2. MapOf(cache) = Promise!Without(MapOf(cache), {})
      BY DEF Promise!Without, MapOf
    <3>3. ListOrder(cache) = Promise!Drop(ListOrder(cache), {})
      BY DEF Promise!Drop
    <3>. QED  BY <3>1, <3>2, <3>3, <1>0
  <2>2. CASE a # NullPtr
    <3>1. gone = {k}
      BY <1>2, <2>2
    <3>. QED  BY <1>0, <1>1, <2>2, <3>1, RemovedIsRemoved
  <2>. QED  BY <2>1, <2>2
<1>4. /\ calls' \in Seq(Key \X Value) /\ ToldOnce'
      /\ S!ToSet(calls') = IF mListener /\ a # NullPtr
                          THEN {<<cache.node[a].key, MapOf(cache)[cache.node[a].key]>>} ELSE {}
  <2> HIDE DEF a
  <2>. QED  BY <1>0, <1>1, <1>2, ToldOfOne
<1>5. S!ToSet(calls') = IF mListener THEN {<<h, MapOf(cache)[h]>> : h \in gone} ELSE {}
  <2>1. CASE a = NullPtr
    BY <1>2, <1>4, <2>1
  <2>2. CASE a # NullPtr
    <3>1. gone = {k}
      BY <1>2, <2>2
    <3> HIDE DEF gone, a
    <3>. QED  BY <1>2, <1>4, <2>2, <3>1
  <2>. QED  BY <2>1, <2>2
<1>6. Inv'
  BY <1>0, <1>1, <1>3, <1>4 DEF Inv, TypeOK, Sound, CacheType
<1>7. Promise!RemoveKeys(gone, k \in Promise!CachedIn(MapOf(cache)))
  <2> HIDE DEF gone
  <2>. QED  BY <1>1, <1>2, <1>3, <1>5 DEF Promise!RemoveKeys, Promise!Report, MapOf
<1>. QED  BY <1>6, <1>7 DEF Promise!Remove, Promise!Cached, MapOf

LEMMA RemoveOldestStep ==
  ASSUME Inv, RemoveOldest
  PROVE  Inv' /\ Promise!RemoveOldest
<1> DEFINE a == Doomed(cache)
           gone == OldestIn(cache)
<1>0. cache \in CacheType /\ Keyed(cache) /\ Sound(cache) /\ mListener \in BOOLEAN
  BY DEF Inv, Sound, TypeOK
<1>1. /\ cache' = WithoutOldest(cache) /\ ret' = (a # NullPtr) /\ mListener' = mListener
      /\ Report(ListOf(a))
  BY DEF RemoveOldest
<1>2. /\ Sound(cache')
      /\ MapOf(cache') = Promise!Without(MapOf(cache), gone)
      /\ ListOrder(cache') = Promise!Drop(ListOrder(cache), gone)
      /\ a = NullPtr \/ a \in cache.set
      /\ gone = IF a = NullPtr THEN {} ELSE {cache.node[a].key}
  BY <1>0, <1>1, EvictedIsOldest
<1> HIDE DEF a, gone
<1>3. /\ calls' \in Seq(Key \X Value) /\ ToldOnce'
      /\ S!ToSet(calls') = IF mListener THEN {<<h, MapOf(cache)[h]>> : h \in gone} ELSE {}
  BY <1>0, <1>1, <1>2, ToldOfOne
<1>4. Inv'
  BY <1>0, <1>1, <1>2, <1>3 DEF Inv, TypeOK, Sound, CacheType
<1>5. Promise!Oldest = gone
  BY DEF Promise!Oldest, OldestIn, Promise!Cached, MapOf, gone
<1>6. Promise!RemoveKeys(gone, gone # {})
  BY <1>1, <1>2, <1>3 DEF Promise!RemoveKeys, Promise!Report, MapOf
<1>. QED  BY <1>4, <1>5, <1>6 DEF Promise!RemoveOldest

LEMMA ClearStep ==
  ASSUME Inv, Clear
  PROVE  Inv' /\ Promise!Clear
<1> DEFINE all == Promise!CachedIn(MapOf(cache))
<1>0. Sound(cache) /\ mListener \in BOOLEAN
  BY DEF Inv, TypeOK
<1>1. cache' = Empty /\ mListener' = mListener /\ ret' = ret /\ Report(Chain(cache))
  BY DEF Clear
<1>2. /\ calls' \in Seq(Key \X Value) /\ ToldOnce'
      /\ S!ToSet(calls') = IF mListener THEN {<<h, MapOf(cache)[h]>> : h \in all} ELSE {}
  BY <1>0, <1>1, ToldOfAll
<1>3. /\ Sound(Empty) /\ MapOf(Empty) = Promise!Without(MapOf(cache), all)
      /\ ListOrder(Empty) = Promise!Drop(ListOrder(cache), all)
  <2>1. \A h \in Key : h \in all \/ MapOf(cache)[h] = NoValue
    BY DEF Promise!CachedIn
  <2>2. Promise!Without(MapOf(cache), all) = [h \in Key |-> NoValue]
    BY <2>1 DEF Promise!Without
  <2>3. Promise!Drop(ListOrder(cache), all) = {}
    <3>1. PICK list : Lists(cache, list)
      BY <1>0 DEF Sound
    <3> DEFINE keys == KeysOf(cache, list)
    <3>2. ListOrder(cache) = SeqOrder(keys) /\ all = {keys[i] : i \in 1..Len(list)} /\ Len(keys) = Len(list)
      BY <1>0, <3>1, ListFacts DEF Sound
    <3> HIDE DEF keys, all
    <3>. QED  BY <3>2 DEF SeqOrder, Promise!Drop
  <2>. QED  BY <2>2, <2>3, EmptyIsSound
<1>4. Inv'
  BY <1>0, <1>1, <1>2, <1>3 DEF Inv, TypeOK, Sound, CacheType
<1>5. Promise!RemoveKeys(all, ret)
  <2> HIDE DEF all
  <2>. QED  BY <1>1, <1>2, <1>3 DEF Promise!RemoveKeys, Promise!Report, MapOf
<1>. QED  BY <1>4, <1>5 DEF Promise!Clear, Promise!Cached, MapOf

LEMMA PeekOldestValueStep ==
  ASSUME Inv, PeekOldestValue
  PROVE  Inv' /\ Promise!PeekOldestValue
<1>0. cache \in CacheType /\ Keyed(cache) /\ Sound(cache) /\ mListener \in BOOLEAN
  BY DEF Inv, Sound, TypeOK
<1>1. /\ calls' = << >> /\ mListener' = mListener /\ cache' = cache
      /\ calls' \in Seq(Key \X Value) /\ ToldOnce' /\ S!ToSet(calls') = {}
  BY DEF PeekOldestValue, ToldOnce, S!IsInjective, S!ToSet
<1>2. Promise!Oldest = OldestIn(cache)
  BY DEF Promise!Oldest, OldestIn, Promise!Cached, MapOf
<1>3. CASE cache.oldest = NullPtr
  <2>1. ret' = NoValue /\ OldestIn(cache) = {}
    BY <1>0, <1>3, OldestIsFirst DEF PeekOldestValue
  <2>. QED  BY <1>0, <1>1, <1>2, <2>1 DEF Inv, TypeOK, Promise!PeekOldestValue, MapOf
<1>4. CASE cache.oldest # NullPtr
  <2> DEFINE k == cache.node[cache.oldest].key
  <2>1. cache.oldest \in cache.set /\ OldestIn(cache) = {k}
    BY <1>0, <1>4, OldestIsFirst
  <2>2. k \in Key /\ ret' = MapOf(cache)[k] /\ ret' \in Value
    BY <1>0, <1>4, <2>1, MapFacts DEF PeekOldestValue, Keyed
  <2> HIDE DEF k
  <2>3. Inv'
    BY <1>0, <1>1, <2>2 DEF Inv, TypeOK
  <2>4. Promise!PeekOldestValue
    BY <1>1, <1>2, <2>1, <2>2 DEF Promise!PeekOldestValue, MapOf
  <2>. QED  BY <2>3, <2>4
<1>. QED  BY <1>3, <1>4

LEMMA SetOnEntryRemovedListenerStep ==
  ASSUME Inv, NEW on \in BOOLEAN, SetOnEntryRemovedListener(on)
  PROVE  Inv' /\ Promise!SetListener(on)
<1>1. /\ calls' = << >> /\ mListener' = on /\ cache' = cache /\ ret' = ret
      /\ calls' \in Seq(Key \X Value) /\ ToldOnce' /\ S!ToSet(calls') = {}
  BY DEF SetOnEntryRemovedListener, ToldOnce, S!IsInjective, S!ToSet
<1>. QED  BY <1>1 DEF Inv, TypeOK, Promise!SetListener, MapOf

(* A new cache is an empty list, which stands for the empty map. *)
LEMMA InitIsSound ==
  ASSUME Init
  PROVE  Inv /\ Promise!Init
<1>1. cache = Empty /\ mListener = FALSE /\ calls = << >> /\ ret = FALSE
  BY DEF Init
<1>2. calls \in Seq(Key \X Value) /\ ToldOnce /\ S!ToSet(calls) = {}
  BY <1>1 DEF ToldOnce, S!IsInjective, S!ToSet
<1>3. Inv
  BY <1>1, <1>2, EmptyIsSound DEF Inv, TypeOK, Sound, CacheType
<1>4. Promise!Init
  BY <1>1, <1>2, EmptyIsSound DEF Promise!Init, MapOf
<1>. QED  BY <1>3, <1>4

(* One lemma for all operations: a step of the list is a step of the map.  *)
LEMMA StepIsMapStep ==
  ASSUME Inv, [Next]_vars
  PROVE  Inv' /\ [Promise!Next]_(Promise!vars)
<1>1. ASSUME NEW on \in BOOLEAN, SetOnEntryRemovedListener(on)
      PROVE  Inv' /\ Promise!Next
  BY <1>1, SetOnEntryRemovedListenerStep DEF Promise!Next
<1>2. ASSUME NEW k \in Key, Get(k)
      PROVE  Inv' /\ Promise!Next
  BY <1>2, GetStep DEF Promise!Next
<1>3. ASSUME NEW k \in Key, Remove(k)
      PROVE  Inv' /\ Promise!Next
  BY <1>3, RemoveStep DEF Promise!Next
<1>4. ASSUME NEW k \in Key, NEW v \in Value, Put(k, v)
      PROVE  Inv' /\ Promise!Next
  BY <1>4, PutStep DEF Promise!Next
<1>5. ASSUME RemoveOldest
      PROVE  Inv' /\ Promise!Next
  BY <1>5, RemoveOldestStep DEF Promise!Next
<1>6. ASSUME Clear
      PROVE  Inv' /\ Promise!Next
  BY <1>6, ClearStep DEF Promise!Next
<1>7. ASSUME PeekOldestValue
      PROVE  Inv' /\ Promise!Next
  BY <1>7, PeekOldestValueStep DEF Promise!Next
<1>8. ASSUME UNCHANGED vars
      PROVE  Inv' /\ UNCHANGED Promise!vars
  <2>1. cache' = cache /\ mListener' = mListener /\ calls' = calls /\ ret' = ret
    BY <1>8 DEF vars
  <2>. QED  BY <2>1 DEF Inv, TypeOK, ToldOnce, Promise!vars, MapOf
<1>. QED  BY <1>1, <1>2, <1>3, <1>4, <1>5, <1>6, <1>7, <1>8 DEF Next

(* The invariant describes the list by some sequence of entries; the walk  *)
(* along the child pointers is that sequence.                              *)
LEMMA InvIsWellLinked ==
  ASSUME Inv
  PROVE  WellLinked
<1>0. cache \in CacheType /\ Keyed(cache)
  BY DEF Inv, Sound
<1>1. PICK list : Lists(cache, list)
  BY DEF Inv, Sound
<1>2. Chain(cache) = list /\ list \in Seq(Addr) /\ Len(list) \in Nat /\ DOMAIN list = 1..Len(list)
  BY <1>0, <1>1, ListFacts DEF Lists
<1>3. S!ToSet(list) = cache.set
  BY <1>1, <1>2 DEF Lists, S!ToSet
<1>4. S!IsInjective(list)
  BY <1>1, <1>2 DEF Lists, Linked, S!IsInjective
<1>5. cache.youngest = IF list = << >> THEN NullPtr ELSE S!Last(list)
  BY <1>1 DEF Lists, Linked, S!Last
<1>6. \A i \in 1..Len(list) : cache.node[list[i]].parent = IF i = 1 THEN NullPtr ELSE list[i - 1]
  BY <1>1 DEF Lists, Linked
<1>7. /\ \A a \in cache.set : cache.node[a].key \in Key
      /\ \A a, b \in cache.set : cache.node[a].key = cache.node[b].key => a = b
  BY <1>0 DEF Keyed
<1>. QED  BY <1>2, <1>3, <1>4, <1>5, <1>6, <1>7 DEF WellLinked

-----------------------------------------------------------------------------
(* In every reachable state some sequence of entries is linked in both     *)
(* directions, the hash set holds exactly its entries, no two of them have *)
(* the same key, and the latest operation told the listener of no entry    *)
(* twice.                                                                  *)
THEOREM ListInvariant == Spec => []Inv
<1>1. Init => Inv
  BY InitIsSound
<1>2. Inv /\ [Next]_vars => Inv'
  BY StepIsMapStep
<1>. QED  BY <1>1, <1>2, PTL DEF Spec

(* The hash set and the linked list never disagree: a walk from mOldest    *)
(* visits every cached entry once and ends at mYoungest, and the way back  *)
(* is the same, whatever is put, fetched, removed or evicted.              *)
THEOREM ListIsWellLinked == Spec => []WellLinked
<1>1. Inv => WellLinked
  BY InvIsWellLinked
<1>. QED  BY <1>1, ListInvariant, PTL

(* No operation calls the listener twice for one entry, clear included:    *)
(* the layout cache's listener frees the layout it is told about.          *)
THEOREM EachToldOnce == Spec => []ToldOnce
<1>1. Inv => ToldOnce
  BY DEF Inv
<1>. QED  BY <1>1, ListInvariant, PTL

(* The linked list is a map with a recency order: every operation returns  *)
(* what the map would return, evicts the key the order says is the oldest, *)
(* and tells the listener of exactly the entries the map loses.            *)
THEOREM ListImplementsMap == Spec => KeepsPromise
<1>1. Init => Promise!Init
  BY InitIsSound
<1>2. Inv /\ [Next]_vars => [Promise!Next]_(Promise!vars)
  BY StepIsMapStep
<1>. QED  BY <1>1, <1>2, ListInvariant, PTL DEF Spec, KeepsPromise, Promise!Spec

-----------------------------------------------------------------------------
(* What is proved of the map holds of the list. *)
Map == INSTANCE LruCacheSpecProofs WITH
  mSet <- MapOf(cache), older <- ListOrder(cache), removed <- S!ToSet(calls)

LEMMA MapSteps ==
  /\ Promise!Init => Map!Init
  /\ [Promise!Next]_(Promise!vars) => [Map!Next]_(Map!vars)
<1>1. Promise!Init => Map!Init
  BY DEF Promise!Init, Map!Init, MapOf
<1>2. \A s : Map!Cardinality(s) = Promise!Cardinality(s)
  BY DEF Map!Cardinality, Promise!Cardinality
<1>3. Map!Full <=> Promise!Full
  BY <1>2 DEF Map!Full, Promise!Full, Map!Cached, Promise!Cached, Map!CachedIn, Promise!CachedIn,
              MapOf, Map!kUnlimitedCapacity, Promise!kUnlimitedCapacity
<1>4. Map!Oldest = Promise!Oldest /\ Map!Cached = Promise!Cached
  BY DEF Map!Oldest, Promise!Oldest, Map!Cached, Promise!Cached, Map!CachedIn, Promise!CachedIn,
         Map!IsOldest, Promise!IsOldest, MapOf
<1>5. /\ \A s, gone : Map!Without(s, gone) = Promise!Without(s, gone)
      /\ \A order, gone : Map!Drop(order, gone) = Promise!Drop(order, gone)
      /\ \A order, s, k : Map!MakeYoungest(order, s, k) = Promise!MakeYoungest(order, s, k)
      /\ \A s : Map!CachedIn(s) = Promise!CachedIn(s)
  BY DEF Map!Without, Promise!Without, Map!Drop, Promise!Drop, Map!MakeYoungest, Promise!MakeYoungest,
         Map!CachedIn, Promise!CachedIn
<1>6. \A gone : Map!Report(gone) <=> Promise!Report(gone)
  BY DEF Map!Report, Promise!Report, MapOf
<1>7. \A gone, r : Map!RemoveKeys(gone, r) <=> Promise!RemoveKeys(gone, r)
  BY <1>5, <1>6 DEF Map!RemoveKeys, Promise!RemoveKeys, MapOf
<1>8. \A k : Map!Get(k) <=> Promise!Get(k)
  BY <1>4, <1>5 DEF Map!Get, Promise!Get, MapOf
<1>9. \A k, v : Map!Put(k, v) <=> Promise!Put(k, v)
  BY <1>3, <1>4, <1>5, <1>6 DEF Map!Put, Promise!Put, MapOf
<1>10. Promise!Next => Map!Next
  BY <1>4, <1>7, <1>8, <1>9 DEF Promise!Next, Map!Next, Promise!Remove, Map!Remove,
     Promise!RemoveOldest, Map!RemoveOldest, Promise!Clear, Map!Clear,
     Promise!PeekOldestValue, Map!PeekOldestValue, Promise!SetListener, Map!SetListener, MapOf
<1>. QED  BY <1>1, <1>10 DEF Promise!vars, Map!vars, MapOf

(* After every operation a bounded cache holds at most mMaxCapacity        *)
(* entries: the bound, proved of the map, holds of the linked list because *)
(* the list implements the map.                                            *)
THEOREM ListKeepsCapacity ==
  Spec => [](MaxCapacity # kUnlimitedCapacity => Cardinality(cache.set) <= MaxCapacity)
<1> DEFINE Bound == MaxCapacity # kUnlimitedCapacity => Cardinality(cache.set) <= MaxCapacity
<1>1. Spec => Map!Spec
  <2>1. Promise!Init => Map!Init
    BY MapSteps
  <2>2. [Promise!Next]_(Promise!vars) => [Map!Next]_(Map!vars)
    BY MapSteps
  <2>. QED  BY <2>1, <2>2, ListImplementsMap, PTL DEF KeepsPromise, Promise!Spec, Map!Spec
<1>2. Map!Spec => []Map!WithinCapacity
  BY Map!CapacityKept, LruAssumption DEF Map!LruAssumption
<1>3. Inv /\ Map!WithinCapacity => Bound
  <2>1. \A s : Map!Cardinality(s) = Cardinality(s)
    BY DEF Map!Cardinality, Cardinality
  <2>2. Map!Cached = Promise!CachedIn(MapOf(cache))
    BY DEF Map!Cached, Map!CachedIn, Promise!CachedIn, MapOf
  <2>3. Inv => Cardinality(cache.set) = Cardinality(Promise!CachedIn(MapOf(cache)))
    BY SameSize DEF Inv
  <2>. QED  BY <2>1, <2>2, <2>3 DEF Map!WithinCapacity, Map!kUnlimitedCapacity, kUnlimitedCapacity
<1>. QED  BY <1>1, <1>2, <1>3, ListInvariant, PTL

=============================================================================
