------------------------ MODULE LocaleListCacheProofs ------------------------
(***************************************************************************)
(* Ids of locale lists keep their meaning for ever, for any strings and    *)
(* any number of threads, and references returned by getById are valid as  *)
(* long as a single thread uses the cache.  Registered ties every entry of *)
(* the lookup table to its list, and Answered every answer of getId to the *)
(* table; together they are inductive.                                     *)
(***************************************************************************)
EXTENDS LocaleListCache, WellFoundedInduction, TLAPS

Lists == {<< >>} \cup {ParseLocaleList(n) : n \in Name}

Shape ==
  /\ mLocaleLists \in Seq(Lists) /\ Len(mLocaleLists) >= 1
  /\ DOMAIN mLocaleListLookupTable \in SUBSET Name
  /\ ListAt(kEmptyListId) = << >>

Registered ==
  \A n \in DOMAIN mLocaleListLookupTable :
    /\ mLocaleListLookupTable[n] \in 0..Len(mLocaleLists) - 1
    /\ ListAt(mLocaleListLookupTable[n]) = ParseLocaleList(n)

Answered ==
  \A a \in issued :
    /\ a[1] \in Name
    /\ Known(a[1]) => a[2] = mLocaleListLookupTable[a[1]]
    /\ ~Known(a[1]) => a[2] = kEmptyListId /\ ParseLocaleList(a[1]) = << >>

Inv == Shape /\ Registered /\ Answered

(* Appending a list moves no other list. *)
LEMMA PushBackKeeps ==
  ASSUME Inv, NEW list \in Lists, PushBack(list)
  PROVE  /\ mLocaleLists' \in Seq(Lists)
         /\ Len(mLocaleLists') = Len(mLocaleLists) + 1
         /\ \A i \in 0..Len(mLocaleLists) - 1 : mLocaleLists'[i + 1] = mLocaleLists[i + 1]
         /\ mLocaleLists'[Len(mLocaleLists) + 1] = list
  BY DEF Inv, Shape, PushBack

LEMMA GetIdNewInv ==
  ASSUME Inv, NEW name \in Name, GetIdNew(name)
  PROVE  Inv'
<1> DEFINE nextId == Len(mLocaleLists)
<1>1. /\ mLocaleLists' \in Seq(Lists)
      /\ Len(mLocaleLists') = Len(mLocaleLists) + 1
      /\ \A i \in 0..Len(mLocaleLists) - 1 : mLocaleLists'[i + 1] = mLocaleLists[i + 1]
      /\ mLocaleLists'[nextId + 1] = ParseLocaleList(name)
  BY PushBackKeeps DEF GetIdNew, Lists
<1>2. nextId \in Nat /\ nextId >= 1
  BY DEF Inv, Shape
<1>3. /\ ~Known(name)
      /\ DOMAIN mLocaleListLookupTable' = DOMAIN mLocaleListLookupTable \cup {name}
      /\ \A n \in DOMAIN mLocaleListLookupTable' :
           mLocaleListLookupTable'[n] = IF n = name THEN nextId ELSE mLocaleListLookupTable[n]
      /\ issued' = issued \cup {<<name, nextId>>}
      /\ ParseLocaleList(name) # << >>
  BY DEF GetIdNew, AnswerOf
<1>4. Shape'
  BY <1>1, <1>2, <1>3 DEF Inv, Shape, ListAt, kEmptyListId
<1>5. Registered'
  <2> SUFFICES ASSUME NEW n \in DOMAIN mLocaleListLookupTable'
               PROVE  /\ mLocaleListLookupTable'[n] \in 0..Len(mLocaleLists') - 1
                      /\ mLocaleLists'[mLocaleListLookupTable'[n] + 1] = ParseLocaleList(n)
    BY DEF Registered, ListAt
  <2>1. CASE n = name
    BY <2>1, <1>1, <1>2, <1>3
  <2>2. CASE n # name
    <3>1. /\ n \in DOMAIN mLocaleListLookupTable
          /\ mLocaleListLookupTable[n] \in 0..Len(mLocaleLists) - 1
          /\ mLocaleLists[mLocaleListLookupTable[n] + 1] = ParseLocaleList(n)
          /\ mLocaleListLookupTable'[n] = mLocaleListLookupTable[n]
      BY <2>2, <1>3 DEF Inv, Registered, ListAt
    <3>. QED  BY <3>1, <1>1, <1>2
  <2>. QED  BY <2>1, <2>2
<1>6. Answered'
  BY <1>2, <1>3 DEF Inv, Answered, Known, Registered
<1>. QED  BY <1>4, <1>5, <1>6 DEF Inv

LEMMA InitInv == Init => Inv
  BY LocaleAssumption DEF Init, Inv, Shape, Registered, Answered, Lists, ListAt, kEmptyListId

LEMMA NextInv == Inv /\ [Next]_vars => Inv'
<1> SUFFICES ASSUME Inv, [Next]_vars PROVE Inv'
  OBVIOUS
<1>1. ASSUME NEW name \in Name, GetIdKnown(name) PROVE Inv'
  BY <1>1 DEF GetIdKnown, AnswerOf, Inv, Shape, Registered, Answered, ListAt, Known
<1>2. ASSUME NEW name \in Name, GetIdUnparsed(name) PROVE Inv'
  BY <1>2 DEF GetIdUnparsed, AnswerOf, Inv, Shape, Registered, Answered, ListAt, Known
<1>3. ASSUME NEW name \in Name, GetIdNew(name) PROVE Inv'
  BY <1>3, GetIdNewInv
<1>4. ASSUME UNCHANGED <<mLocaleLists, mLocaleListLookupTable, issued>> PROVE Inv'
  BY <1>4 DEF Inv, Shape, Registered, Answered, ListAt, Known
<1>. QED  BY <1>1, <1>2, <1>3, <1>4 DEF Next, GetId, GetById, Release, vars

(* Every id ever answered for a string designates the list of that string, *)
(* and no string is ever answered two ids.                                 *)
THEOREM IdsAreStable == Spec => []IdsKeepTheirMeaning
<1>1. Inv => IdsKeepTheirMeaning
  <2> SUFFICES ASSUME Inv PROVE IdsKeepTheirMeaning
    OBVIOUS
  <2>1. ASSUME NEW a \in issued
        PROVE  a[2] < Len(mLocaleLists) /\ ListAt(a[2]) = ParseLocaleList(a[1])
    BY DEF Inv, Shape, Registered, Answered, Known, kEmptyListId
  <2>2. \A a, b \in issued : a[1] = b[1] => a[2] = b[2]
    BY DEF Inv, Answered
  <2>. QED  BY <2>1, <2>2 DEF IdsKeepTheirMeaning
<1>. QED  BY <1>1, InitInv, NextInv, PTL DEF Spec

(* A registered list never changes.                                        *)
THEOREM ListsNeverChange == Spec => ListsAreImmutable
<1> DEFINE Kept == \A i \in DOMAIN mLocaleLists :
                     i \in DOMAIN mLocaleLists' /\ mLocaleLists'[i] = mLocaleLists[i]
<1>1. Inv /\ [Next]_vars => [Kept]_vars
  <2> SUFFICES ASSUME Inv, Next PROVE Kept
    OBVIOUS
  <2>1. ASSUME NEW name \in Name, GetIdNew(name) PROVE Kept
    <3>1. /\ mLocaleLists' \in Seq(Lists) /\ Len(mLocaleLists') = Len(mLocaleLists) + 1
          /\ \A i \in 0..Len(mLocaleLists) - 1 : mLocaleLists'[i + 1] = mLocaleLists[i + 1]
      BY <2>1, PushBackKeeps DEF GetIdNew, Lists
    <3>2. ASSUME NEW i \in DOMAIN mLocaleLists
          PROVE  i \in DOMAIN mLocaleLists' /\ mLocaleLists'[i] = mLocaleLists[i]
      <4>1. /\ i \in 1..Len(mLocaleLists) /\ Len(mLocaleLists) \in Nat
            /\ DOMAIN mLocaleLists' = 1..Len(mLocaleLists')
        BY <3>1 DEF Inv, Shape
      <4>2. i - 1 \in 0..Len(mLocaleLists) - 1 /\ (i - 1) + 1 = i
        BY <4>1
      <4>. QED  BY <4>1, <4>2, <3>1
    <3>. QED  BY <3>2
  <2>2. CASE UNCHANGED mLocaleLists
    BY <2>2
  <2>. QED  BY <2>1, <2>2 DEF Next, GetId, GetIdKnown, GetIdUnparsed, GetById, Release
<1>. QED  BY <1>1, InitInv, NextInv, PTL DEF Spec, ListsAreImmutable

(* A program that uses the cache from one thread never reads a list        *)
(* through a reference that the vector's growth has invalidated.           *)
THEOREM OneThreadRefsAreValid ==
  ASSUME \A t, u \in Thread : t = u
  PROVE  Spec => []RefsStayValid
<1> DEFINE Typed == DOMAIN refs = Thread /\ refs = [t \in Thread |-> refs[t]]
<1>1. Init => Typed /\ RefsStayValid
  BY DEF Init, RefsStayValid
<1>2. Typed /\ RefsStayValid /\ [Next]_vars => Typed' /\ RefsStayValid'
  <2> SUFFICES ASSUME Typed, RefsStayValid, [Next]_vars PROVE Typed' /\ RefsStayValid'
    OBVIOUS
  <2>1. ASSUME NEW t \in Thread, NEW name \in Name, GetId(t, name) PROVE Typed' /\ RefsStayValid'
    BY <2>1 DEF GetId, GetIdKnown, GetIdUnparsed, GetIdNew, RefsStayValid
  <2>2. ASSUME NEW t \in Thread, NEW id \in KnownIds, GetById(t, id) PROVE Typed' /\ RefsStayValid'
    BY <2>2 DEF GetById, RefsStayValid
  <2>3. ASSUME NEW t \in Thread, Release(t) PROVE Typed' /\ RefsStayValid'
    BY <2>3 DEF Release, RefsStayValid
  <2>4. CASE UNCHANGED vars
    BY <2>4 DEF vars, RefsStayValid
  <2>. QED  BY <2>1, <2>2, <2>3, <2>4 DEF Next
<1>. QED  BY <1>1, <1>2, PTL DEF Spec

-----------------------------------------------------------------------------
(* What parsing builds, tag by tag.  Without induction theorems to cite, a *)
(* statement is proved for all prefixes by looking at the shortest one for *)
(* which it would fail.                                                    *)
LEMMA LeastExists ==
  ASSUME NEW T \in SUBSET Nat, T # {}
  PROVE  \E x \in T : \A y \in T : x <= y
<1> DEFINE R == OpToRel(<, Nat)
<1>1. \A x, y \in Nat : y < x => <<y, x>> \in R
  BY DEF OpToRel
<1>2. IsWellFoundedOn(R, Nat)
  BY NatLessThanWellFounded
<1> HIDE DEF R
<1>3. PICK x \in T : \A y \in T : <<y, x>> \notin R
  BY <1>2, WFMin
<1>4. ASSUME NEW y \in T PROVE x <= y
  <2>1. x \in Nat /\ y \in Nat /\ ~ (y < x)
    BY <1>1, <1>3
  <2>. QED  BY <2>1
<1>. QED  BY <1>4

IsParsed(name, n, f) ==
  f = [i \in 0..n |-> IF i = 0 THEN << >> ELSE Accept(f[i - 1], name[i])]

(* No locale twice, and no more than the limit. *)
Clean(list) ==
  /\ list \in Seq(Identifier) /\ Len(list) <= FONT_LOCALE_LIMIT
  /\ \A j, k \in 1..Len(list) : list[j] = list[k] => j = k

LEMMA AcceptKeepsClean ==
  ASSUME NEW list, Clean(list), NEW tag \in Tag
  PROVE  Clean(Accept(list, tag))
<1>1. CASE Accept(list, tag) = list
  BY <1>1
<1>2. CASE Accept(list, tag) # list
  <2> DEFINE long == Append(list, IdentifierOf(tag))
             n == Len(list)
  <2>1. /\ Accept(list, tag) = long /\ IdentifierOf(tag) \in Identifier
        /\ \A j \in DOMAIN list : list[j] # IdentifierOf(tag)
        /\ n < FONT_LOCALE_LIMIT
    BY <1>2, LocaleAssumption DEF Accept, Clean
  <2>2. /\ long \in Seq(Identifier) /\ n \in Nat /\ Len(long) = n + 1
        /\ DOMAIN list = 1..n
        /\ \A j \in 1..n + 1 : long[j] = IF j <= n THEN list[j] ELSE IdentifierOf(tag)
    BY <2>1 DEF Clean
  <2> HIDE DEF long
  <2>3. \A j, k \in 1..n + 1 : long[j] = long[k] => j = k
    BY <2>1, <2>2 DEF Clean
  <2>4. Len(long) <= FONT_LOCALE_LIMIT
    BY <2>1, <2>2, LocaleAssumption
  <2>. QED  BY <2>1, <2>2, <2>3, <2>4 DEF Clean
<1>. QED  BY <1>1, <1>2

LEMMA ParsedExists ==
  ASSUME NEW name \in Seq(Tag), NEW n \in Nat
  PROVE  \E f : IsParsed(name, n, f)
<1> DEFINE bad == {m \in Nat : ~ \E f : IsParsed(name, m, f)}
<1>1. SUFFICES ASSUME bad # {} PROVE FALSE
  OBVIOUS
<1>2. PICK m \in bad : \A y \in bad : m <= y
  BY <1>1, LeastExists
<1>3. CASE m = 0
  <2> DEFINE f == [i \in 0..0 |-> << >>]
  <2>1. IsParsed(name, 0, f)
    BY DEF IsParsed
  <2>. QED  BY <1>2, <1>3, <2>1
<1>4. CASE m # 0
  <2>1. m - 1 \in Nat /\ m - 1 \notin bad
    BY <1>2, <1>4
  <2>2. PICK f : IsParsed(name, m - 1, f)
    BY <2>1
  <2> DEFINE g == [i \in 0..m |-> IF i = m THEN Accept(f[m - 1], name[m]) ELSE f[i]]
  <2>3. \A i \in 0..m - 1 : f[i] = IF i = 0 THEN << >> ELSE Accept(f[i - 1], name[i])
    BY <2>2 DEF IsParsed
  <2>4. \A i \in 0..m : g[i] = IF i = 0 THEN << >> ELSE Accept(g[i - 1], name[i])
    <3>1. \A i \in 0..m - 1 : g[i] = f[i]
      BY <1>2
    <3>2. g[m] = Accept(f[m - 1], name[m]) /\ m - 1 \in 0..m - 1 /\ m \in Nat
      BY <1>2, <1>4
    <3>3. \A i \in 0..m : i = m \/ (i \in 0..m - 1 /\ (i # 0 => i - 1 \in 0..m - 1))
      BY <3>2
    <3> HIDE DEF g
    <3>. QED  BY <1>4, <2>3, <3>1, <3>2, <3>3
  <2>5. IsParsed(name, m, g)
    <3>1. g = [i \in 0..m |-> g[i]]
      OBVIOUS
    <3> HIDE DEF g
    <3>. QED  BY <2>4, <3>1 DEF IsParsed
  <2>. QED  BY <1>2, <2>5
<1>. QED  BY <1>3, <1>4

LEMMA ParsedIsClean ==
  ASSUME NEW name \in Name
  PROVE  Clean(ParseLocaleList(name))
<1> DEFINE n == Len(name)
           f == CHOOSE f : f = [i \in 0..n |-> IF i = 0 THEN << >> ELSE Accept(f[i - 1], name[i])]
           bad == {i \in 0..n : ~ Clean(f[i])}
<1>1. name \in Seq(Tag) /\ n \in Nat
  BY LocaleAssumption
<1>2. f = [i \in 0..n |-> IF i = 0 THEN << >> ELSE Accept(f[i - 1], name[i])]
  <2>1. \E g : g = [i \in 0..n |-> IF i = 0 THEN << >> ELSE Accept(g[i - 1], name[i])]
    BY <1>1, ParsedExists DEF IsParsed
  <2>. QED  BY <2>1
<1>3. ParseLocaleList(name) = f[n]
  BY DEF ParseLocaleList
<1> HIDE DEF f
<1>4. bad = {}
  <2>1. SUFFICES ASSUME bad # {} PROVE FALSE
    OBVIOUS
  <2>2. PICK i \in bad : \A y \in bad : i <= y
    BY <1>1, <2>1, LeastExists, bad \in SUBSET Nat
  <2>3. CASE i = 0
    <3>1. f[0] = << >>
      BY <1>1, <1>2
    <3>2. Clean(<< >>)
      BY LocaleAssumption DEF Clean
    <3>. QED  BY <2>2, <2>3, <3>1, <3>2
  <2>4. CASE i # 0
    <3>1. i \in 1..n /\ i - 1 \in 0..n /\ i - 1 \notin bad /\ name[i] \in Tag
      BY <1>1, <2>2, <2>4
    <3>2. Clean(f[i - 1])
      BY <3>1
    <3>3. f[i] = Accept(f[i - 1], name[i])
      BY <1>2, <3>1
    <3>. QED  BY <2>2, <3>1, <3>2, <3>3, AcceptKeepsClean
  <2>. QED  BY <2>3, <2>4
<1>. QED  BY <1>1, <1>3, <1>4

(* Only the list of id 0 is empty, and every other one has at most the     *)
(* number of locales that the score of a match can count, none of them     *)
(* twice, whatever strings are registered.                                 *)
THEOREM ListsStayClean == Spec => []ListsAreClean
<1> DEFINE Filled == \A i \in 2..Len(mLocaleLists) : Clean(mLocaleLists[i]) /\ mLocaleLists[i] # << >>
<1>1. Init => Filled
  BY DEF Init
<1>2. Inv /\ Filled /\ [Next]_vars => Filled'
  <2> SUFFICES ASSUME Inv, Filled, [Next]_vars PROVE Filled'
    OBVIOUS
  <2>1. ASSUME NEW name \in Name, GetIdNew(name) PROVE Filled'
    <3> DEFINE list == ParseLocaleList(name)
    <3>1. Clean(list) /\ list # << >> /\ list \in Lists /\ PushBack(list)
      BY <2>1, ParsedIsClean DEF GetIdNew, Lists
    <3> HIDE DEF list
    <3>2. /\ Len(mLocaleLists') = Len(mLocaleLists) + 1
          /\ \A i \in 0..Len(mLocaleLists) - 1 : mLocaleLists'[i + 1] = mLocaleLists[i + 1]
          /\ mLocaleLists'[Len(mLocaleLists) + 1] = list
      BY <3>1, PushBackKeeps
    <3>3. Len(mLocaleLists) \in Nat
      BY DEF Inv, Shape
    <3>4. ASSUME NEW i \in 2..Len(mLocaleLists')
          PROVE  Clean(mLocaleLists'[i]) /\ mLocaleLists'[i] # << >>
      <4>1. CASE i = Len(mLocaleLists) + 1
        BY <4>1, <3>1, <3>2
      <4>2. CASE i # Len(mLocaleLists) + 1
        <5>1. i \in 2..Len(mLocaleLists) /\ i - 1 \in 0..Len(mLocaleLists) - 1 /\ (i - 1) + 1 = i
          BY <3>2, <3>3, <4>2
        <5>. QED  BY <5>1, <3>2
      <4>. QED  BY <4>1, <4>2
    <3>. QED  BY <3>4
  <2>2. CASE UNCHANGED mLocaleLists
    BY <2>2
  <2>. QED  BY <2>1, <2>2 DEF Next, GetId, GetIdKnown, GetIdUnparsed, GetById, Release, vars
<1>3. Inv /\ Filled => ListsAreClean
  <2> SUFFICES ASSUME Inv, Filled PROVE ListsAreClean
    OBVIOUS
  <2>1. ListAt(kEmptyListId) = << >>
    BY DEF Inv, Shape
  <2>2. ASSUME NEW i \in 2..Len(mLocaleLists)
        PROVE  /\ Len(mLocaleLists[i]) \in 1..FONT_LOCALE_LIMIT
               /\ \A j, k \in 1..Len(mLocaleLists[i]) :
                    mLocaleLists[i][j] = mLocaleLists[i][k] => j = k
    BY LocaleAssumption DEF Clean
  <2>. QED  BY <2>1, <2>2 DEF ListsAreClean
<1>. QED  BY <1>1, <1>2, <1>3, InitInv, NextInv, PTL DEF Spec

=============================================================================
