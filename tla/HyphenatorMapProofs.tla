------------------------- MODULE HyphenatorMapProofs -------------------------
(* Proofs about HyphenatorMap, for any locales and hyphenators and whatever *)
(* the locales looked up are: a stored search result never stands in the    *)
(* way of a registration, and lookups leave alone what is found already;    *)
(* they follow the documented rules, of which stored results hide only the  *)
(* last one.                                                                *)
EXTENDS HyphenatorMap, TLAPS

Stored == Hyphenator \cup {mSoftHyphenOnlyHyphenator, NoHyphenator}

(* What can be stored, and the inductive invariant: a registration is only  *)
(* known to survive where the maps are total.                               *)
Inv == TypeOK /\ RegistrationWins

(* lookupInternal answers with something that can be stored, never with     *)
(* nullptr.                                                                 *)
LEMMA SearchFinds ==
  ASSUME TypeOK, NEW l \in LookedUp
  PROVE Search(mMap, l) \in Hyphenator \cup {mSoftHyphenOnlyHyphenator}
<1> DEFINE found == {i \in 1..6 : Tried(l, i) /\ EntryOf(mMap, Candidate(l)[i]) # NoHyphenator}
           first == CHOOSE i \in found : \A j \in found : i <= j
<1>1. CASE found = {}
  BY <1>1 DEF Search
<1>2. CASE found # {}
  <2>1. first \in found
    <3>1. PICK i \in found : \A j \in found : i <= j
      <4>1. found \subseteq 1..6
        OBVIOUS
      <4> HIDE DEF found
      <4>2. \E i \in 1..6 : i \in found
        BY <4>1, <1>2
      <4> QED
        BY <4>1, <4>2
    <3> HIDE DEF found
    <3> QED
      BY <3>1
  <2>2. EntryOf(mMap, Candidate(l)[first]) # NoHyphenator
    BY <2>1
  <2>3. EntryOf(mMap, Candidate(l)[first]) \in Stored
    BY DEF EntryOf, TypeOK, Stored
  <2>4. Search(mMap, l) = EntryOf(mMap, Candidate(l)[first])
    BY <1>2 DEF Search
  <2> QED
    BY <2>2, <2>3, <2>4 DEF Stored
<1> QED
  BY <1>1, <1>2

(* The invariant holds of the empty map and is kept by every operation.     *)
LEMMA InvInit == Init => Inv
BY MapAssumption DEF Init, Inv, TypeOK, Stored, RegistrationWins

LEMMA InvNext == Inv /\ [Next]_vars => Inv'
<1> SUFFICES ASSUME Inv, [Next]_vars
             PROVE Inv'
  OBVIOUS
<1> USE MapAssumption
<1>1. ASSUME NEW l \in Registrable, NEW h \in Hyphenator, Add(l, h)
      PROVE Inv'
  BY <1>1 DEF Inv, TypeOK, Stored, RegistrationWins, Add, AfterAdd
<1>2. ASSUME NEW from \in Registrable, NEW to \in Registrable, AddAlias(from, to)
      PROVE Inv'
  BY <1>2 DEF Inv, TypeOK, Stored, RegistrationWins, AddAlias, AfterAdd
<1>3. ASSUME NEW l \in LookedUp, Lookup(l)
      PROVE Inv'
  <2>1. Search(mMap, l) \in Hyphenator \cup {mSoftHyphenOnlyHyphenator}
    BY SearchFinds DEF Inv
  <2>2. TypeOK'
    BY <1>3, <2>1 DEF Inv, TypeOK, Stored, Lookup, AfterLookup
  <2>3. RegistrationWins'
    BY <1>3 DEF Inv, TypeOK, RegistrationWins, Lookup
  <2> QED
    BY <2>2, <2>3 DEF Inv
<1>4. CASE UNCHANGED vars
  BY <1>4 DEF Inv, TypeOK, RegistrationWins, vars
<1> QED
  BY <1>1, <1>2, <1>3, <1>4 DEF Next

LEMMA InvAlways == Spec => []Inv
BY InvInit, InvNext, PTL DEF Spec

(* Type correctness; in particular lookup never answers with nullptr.       *)
THEOREM MapTyped == Spec => []TypeOK
<1>1. Inv => TypeOK
  BY DEF Inv
<1> QED
  BY <1>1, InvAlways, PTL

(* What add or addAlias registered last for a locale is what lookup finds   *)
(* for exactly that locale, whatever was looked up in between.              *)
THEOREM RegistrationsWin == Spec => []RegistrationWins
<1>1. Inv => RegistrationWins
  BY DEF Inv
<1> QED
  BY <1>1, InvAlways, PTL

(* A lookup changes nothing of what is found for the locales the map knows: *)
(* only a registration does.  The ghost map tells a registration apart only *)
(* because of RegistrationWins: one that does not change the ghost does not *)
(* change mMap either.                                                      *)
THEOREM LookupsKeepResults == Spec => LookupsChangeNothing
<1> DEFINE Kept == registered' = registered =>
                     \A l \in Locale : mMap[l] # NoHyphenator => mMap'[l] = mMap[l]
<1>1. Inv /\ [Next]_vars => [Kept]_vars
  <2> SUFFICES ASSUME Inv, Next, registered' = registered,
                      NEW k \in Locale, mMap[k] # NoHyphenator
               PROVE mMap'[k] = mMap[k]
    OBVIOUS
  <2> USE MapAssumption
  <2>1. ASSUME NEW l \in Registrable, NEW h \in Hyphenator, Add(l, h)
        PROVE mMap'[k] = mMap[k]
    BY <2>1 DEF Inv, TypeOK, RegistrationWins, Add
  <2>2. ASSUME NEW from \in Registrable, NEW to \in Registrable, AddAlias(from, to)
        PROVE mMap'[k] = mMap[k]
    BY <2>2 DEF Inv, TypeOK, RegistrationWins, AddAlias
  <2>3. ASSUME NEW l \in LookedUp, Lookup(l)
        PROVE mMap'[k] = mMap[k]
    BY <2>3 DEF Inv, TypeOK, Lookup
  <2> QED
    BY <2>1, <2>2, <2>3 DEF Next
<1> QED
  BY <1>1, InvAlways, PTL DEF Spec, LookupsChangeNothing

-----------------------------------------------------------------------------
Rule(l, i) == RuleLocale(l)[i]
Registered(l, i) == EntryOf(registered, Rule(l, i))

(* What may be stored for a locale that was looked up.                      *)
IsGood(l, h) == h = ByRules(l) \/ (ScriptIsHidden(l) /\ h = ByRules(Rule(l, 5)))

(* Before anything was added late, the map holds what was registered and,   *)
(* for locales that were looked up, the answers that FollowsRules allows.   *)
GoodStored ==
  order # "late" =>
    \A k \in Locale : \/ mMap[k] = registered[k]
                      \/ k \in LookedUp /\ registered[k] = NoHyphenator /\ IsGood(k, mMap[k])
NothingStored == order = "registering" => mMap = registered

(* A locale is a record of the five subtags, whatever they are.             *)
IsLocale(l) == l = [lang |-> l.lang, script |-> l.script, region |-> l.region,
                    variant |-> l.variant, style |-> l.style]

LEMMA LocalesAreRecords == \A l \in Locale : IsLocale(l)
<1> SUFFICES ASSUME NEW l \in Locale
             PROVE  IsLocale(l)
  OBVIOUS
<1>1. l \in LocaleRecord
  BY MapAssumption
<1> QED
  BY <1>1 DEF IsLocale, LocaleRecord

(* The partial locales that are tried are those of the rules.               *)
LEMMA CandidatesAreRules ==
  ASSUME NEW l, IsLocale(l), NEW i \in 1..6
  PROVE  Candidate(l)[i] = Rule(l, i)
<1> USE DEF Candidate, Rule, RuleLocale, GetPartialLocale, IsLocale
<1>1. CASE i = 1
  BY <1>1
<1>2. CASE i = 2
  BY <1>2
<1>3. CASE i = 3
  BY <1>3
<1>4. CASE i = 4
  BY <1>4
<1>5. CASE i = 5
  BY <1>5
<1>6. CASE i = 6
  BY <1>6
<1> QED
  BY <1>1, <1>2, <1>3, <1>4, <1>5, <1>6

(* Both answers are those of the first that is found.                       *)
LEMMA SearchOfFirst ==
  ASSUME NEW l, NEW i \in 1..6, Tried(l, i), EntryOf(mMap, Candidate(l)[i]) # NoHyphenator,
         \A j \in 1..i - 1 : ~(Tried(l, j) /\ EntryOf(mMap, Candidate(l)[j]) # NoHyphenator)
  PROVE  Search(mMap, l) = EntryOf(mMap, Candidate(l)[i])
<1> DEFINE found == {j \in 1..6 : Tried(l, j) /\ EntryOf(mMap, Candidate(l)[j]) # NoHyphenator}
           first == CHOOSE j \in found : \A k \in found : j <= k
<1>1. i \in found /\ found \subseteq 1..6 /\ \A j \in found : i <= j
  OBVIOUS
<1>2. Search(mMap, l) = EntryOf(mMap, Candidate(l)[first])
  BY <1>1 DEF Search
<1> HIDE DEF found
<1>3. first \in found /\ \A k \in found : first <= k
  BY <1>1
<1>4. first = i
  <2> HIDE DEF first
  <2>1. first \in 1..6 /\ first <= i /\ i <= first
    BY <1>1, <1>3
  <2> QED
    BY <2>1
<1> QED
  BY <1>2, <1>4

LEMMA SearchOfNone ==
  ASSUME NEW l, \A j \in 1..6 : ~(Tried(l, j) /\ EntryOf(mMap, Candidate(l)[j]) # NoHyphenator)
  PROVE  Search(mMap, l) = mSoftHyphenOnlyHyphenator
<1>1. {i \in 1..6 : Tried(l, i) /\ EntryOf(mMap, Candidate(l)[i]) # NoHyphenator} = {}
  OBVIOUS
<1> QED
  BY <1>1 DEF Search

LEMMA RulesOfFirst ==
  ASSUME NEW l, NEW i \in 1..6, Registered(l, i) # NoHyphenator,
         \A j \in 1..i - 1 : Registered(l, j) = NoHyphenator
  PROVE  ByRules(l) = Registered(l, i)
<1> DEFINE First(n) == Registered(l, n) # NoHyphenator
                       /\ \A j \in 1..n - 1 : ~(Registered(l, j) # NoHyphenator)
           first == CHOOSE n \in 1..6 : First(n)
<1>1. ByRules(l) = Registered(l, first)
  BY DEF ByRules, Registered, Rule
<1>2. First(i)
  OBVIOUS
<1>3. \A n \in 1..6 : First(n) => n = i
  <2>1. ASSUME NEW n \in 1..6, First(n)
        PROVE  n = i
    <3>1. ~(n < i)
      BY <2>1
    <3>2. ~(i < n)
      BY <2>1
    <3> QED
      BY <3>1, <3>2
  <2> QED
    BY <2>1
<1>4. first \in 1..6 /\ First(first)
  <2> HIDE DEF First
  <2> QED
    BY <1>2
<1> QED
  BY <1>1, <1>3, <1>4

LEMMA RulesOfNone ==
  ASSUME NEW l, \A j \in 1..6 : Registered(l, j) = NoHyphenator
  PROVE  ByRules(l) = mSoftHyphenOnlyHyphenator
  BY DEF ByRules, Registered, Rule

LEMMA FirstRule ==
  ASSUME NEW l
  PROVE  \/ \A i \in 1..6 : Registered(l, i) = NoHyphenator
         \/ \E i \in 1..6 : /\ Registered(l, i) # NoHyphenator
                            /\ \A j \in 1..i - 1 : Registered(l, j) = NoHyphenator
<1> DEFINE none(i) == Registered(l, i) = NoHyphenator
<1>1. \/ \A i \in 1..6 : none(i)
      \/ \E i \in 1..6 : ~none(i) /\ \A j \in 1..i - 1 : none(j)
  <2> HIDE DEF none
  <2> QED
    OBVIOUS
<1> QED
  BY <1>1

(* Rules 2 to 5 keep the language, and all of a locale that has nothing.    *)
LEMMA ShorterRules ==
  ASSUME NEW l, IsLocale(l), NEW i \in 2..5
  PROVE  /\ "lang" \in DOMAIN Rule(l, i) /\ Rule(l, i).lang = l.lang
         /\ i # 2 => Rule(l, i).script = Absent
         /\ Bare(l) => Rule(l, i) = l
<1> USE DEF Rule, RuleLocale, IsLocale
<1>1. DOMAIN l = {"lang", "script", "region", "variant", "style"}
  OBVIOUS
<1>2. Bare(l) => l.script = Absent /\ l.region = Absent /\ l.variant = Absent /\ l.style = Absent
  BY <1>1 DEF Bare
<1>3. CASE i = 2
  BY <1>2, <1>3
<1>4. CASE i = 3
  BY <1>2, <1>4
<1>5. CASE i = 4
  BY <1>2, <1>5
<1>6. CASE i = 5
  BY <1>2, <1>6
<1> QED
  BY <1>3, <1>4, <1>5, <1>6

(* The rules for a locale without style are the same but for the first.     *)
LEMMA RulesOfFull ==
  ASSUME NEW l, IsLocale(l)
  PROVE  /\ Rule(Rule(l, 2), 1) = Rule(l, 2)
         /\ \A i \in 2..6 : Rule(Rule(l, 2), i) = Rule(l, i)
<1> USE DEF Rule, RuleLocale, IsLocale
<1> DEFINE full == Rule(l, 2)
<1>1. Rule(full, 1) = full
  OBVIOUS
<1>2. Rule(full, 2) = Rule(l, 2)
  OBVIOUS
<1>3. Rule(full, 3) = Rule(l, 3)
  OBVIOUS
<1>4. Rule(full, 4) = Rule(l, 4)
  OBVIOUS
<1>5. Rule(full, 5) = Rule(l, 5)
  OBVIOUS
<1>6. Rule(full, 6) = Rule(l, 6)
  OBVIOUS
<1>7. \A i \in 2..6 : i = 2 \/ i = 3 \/ i = 4 \/ i = 5 \/ i = 6
  OBVIOUS
<1> QED
  <2> HIDE DEF Rule
  <2> QED
    BY <1>1, <1>2, <1>3, <1>4, <1>5, <1>6, <1>7

(* The rules for a shorter locale without script: itself up to its own      *)
(* rule, then those of the longer one, and last the unknown language.       *)
Unknown == [lang |-> Und, script |-> Absent, region |-> Absent, variant |-> Absent, style |-> Absent]

LEMMA RulesOfScriptless ==
  ASSUME NEW l, IsLocale(l), NEW i \in 3..5
  PROVE  /\ IsLocale(Rule(l, i))
         /\ \A j \in 1..5 : Rule(Rule(l, i), j) = IF j <= i THEN Rule(l, i) ELSE Rule(l, j)
         /\ Rule(Rule(l, i), 6) = Unknown
<1> USE DEF Rule, RuleLocale, IsLocale, Unknown
<1> DEFINE k == Rule(l, i)
<1>1. CASE i = 3
  <2>1. IsLocale(k) /\ Rule(k, 6) = Unknown
    <3>1. IsLocale(k)
      BY <1>1
    <3>2. Rule(k, 6) = Unknown
      BY <1>1
    <3> QED
      BY <3>1, <3>2
  <2>2. Rule(k, 1) = k
    OBVIOUS
  <2>3. Rule(k, 2) = k
    BY <1>1
  <2>4. Rule(k, 3) = k
    BY <1>1
  <2>5. Rule(k, 4) = Rule(l, 4)
    BY <1>1
  <2>6. Rule(k, 5) = Rule(l, 5)
    BY <1>1
  <2> HIDE DEF Rule
  <2>7. \A j \in 1..5 : j = 1 \/ j = 2 \/ j = 3 \/ j = 4 \/ j = 5
    OBVIOUS
  <2> QED
    BY <1>1, <2>1, <2>2, <2>3, <2>4, <2>5, <2>6, <2>7
<1>2. CASE i = 4
  <2>1. IsLocale(k) /\ Rule(k, 6) = Unknown
    <3>1. IsLocale(k)
      BY <1>2
    <3>2. Rule(k, 6) = Unknown
      BY <1>2
    <3> QED
      BY <3>1, <3>2
  <2>2. Rule(k, 1) = k
    OBVIOUS
  <2>3. Rule(k, 2) = k
    BY <1>2
  <2>4. Rule(k, 3) = k
    BY <1>2
  <2>5. Rule(k, 4) = k
    BY <1>2
  <2>6. Rule(k, 5) = Rule(l, 5)
    BY <1>2
  <2> HIDE DEF Rule
  <2>7. \A j \in 1..5 : j = 1 \/ j = 2 \/ j = 3 \/ j = 4 \/ j = 5
    OBVIOUS
  <2> QED
    BY <1>2, <2>1, <2>2, <2>3, <2>4, <2>5, <2>6, <2>7
<1>3. CASE i = 5
  <2>1. IsLocale(k) /\ Rule(k, 6) = Unknown
    <3>1. IsLocale(k)
      BY <1>3
    <3>2. Rule(k, 6) = Unknown
      BY <1>3
    <3> QED
      BY <3>1, <3>2
  <2>2. Rule(k, 1) = k
    OBVIOUS
  <2>3. Rule(k, 2) = k
    BY <1>3
  <2>4. Rule(k, 3) = k
    BY <1>3
  <2>5. Rule(k, 4) = k
    BY <1>3
  <2>6. Rule(k, 5) = k
    BY <1>3
  <2> HIDE DEF Rule
  <2>7. \A j \in 1..5 : j = 1 \/ j = 2 \/ j = 3 \/ j = 4 \/ j = 5
    OBVIOUS
  <2> QED
    BY <1>3, <2>1, <2>2, <2>3, <2>4, <2>5, <2>6, <2>7
<1> QED
  BY <1>1, <1>2, <1>3

(* The rules for a script without language.                                 *)
LEMMA RulesOfScript ==
  ASSUME NEW l, IsLocale(l)
  PROVE  /\ IsLocale(Rule(l, 6))
         /\ \A j \in {1, 2, 6} : Rule(Rule(l, 6), j) = Rule(l, 6)
         /\ \A j \in 3..5 : Rule(Rule(l, 6), j) = Unknown
         /\ \A j \in 1..5 : Rule(Unknown, j) = Unknown
         /\ Rule(Unknown, 6) = Unknown /\ IsLocale(Unknown)
<1> USE DEF Rule, RuleLocale, IsLocale, Unknown
<1> DEFINE k == Rule(l, 6)
<1>1. IsLocale(k) /\ IsLocale(Unknown)
  <2>1. IsLocale(k)
    OBVIOUS
  <2>2. IsLocale(Unknown)
    OBVIOUS
  <2> QED
    BY <2>1, <2>2
<1>2. Rule(k, 1) = k /\ Rule(k, 2) = k
  OBVIOUS
<1>3. Rule(k, 6) = k
  OBVIOUS
<1>4. Rule(k, 3) = Unknown /\ Rule(k, 4) = Unknown
  OBVIOUS
<1>5. Rule(k, 5) = Unknown
  OBVIOUS
<1>6. Rule(Unknown, 1) = Unknown /\ Rule(Unknown, 2) = Unknown /\ Rule(Unknown, 3) = Unknown
  OBVIOUS
<1>7. Rule(Unknown, 4) = Unknown /\ Rule(Unknown, 5) = Unknown /\ Rule(Unknown, 6) = Unknown
  OBVIOUS
<1> HIDE DEF Rule, Unknown, IsLocale
<1>8. /\ \A j \in 1..5 : j = 1 \/ j = 2 \/ j = 3 \/ j = 4 \/ j = 5
      /\ \A j \in 3..5 : j = 3 \/ j = 4 \/ j = 5
  OBVIOUS
<1> QED
  BY <1>1, <1>2, <1>3, <1>4, <1>5, <1>6, <1>7, <1>8

-----------------------------------------------------------------------------
(* What is found for a language of which nothing is registered.             *)
OfUnknown == IF EntryOf(registered, Unknown) # NoHyphenator THEN EntryOf(registered, Unknown)
             ELSE mSoftHyphenOnlyHyphenator

(* When the rules but the last find nothing, the last one decides.          *)
LEMMA LastRule ==
  ASSUME NEW l, ~LanguageIsKnown(l)
  PROVE  /\ \A j \in 1..5 : Registered(l, j) = NoHyphenator
         /\ ByRules(l) = IF Registered(l, 6) # NoHyphenator THEN Registered(l, 6)
                         ELSE mSoftHyphenOnlyHyphenator
<1>1. \A j \in 1..5 : Registered(l, j) = NoHyphenator
  BY DEF LanguageIsKnown, Registered, Rule
<1>2. CASE Registered(l, 6) # NoHyphenator
  <2>1. \A j \in 1..6 - 1 : Registered(l, j) = NoHyphenator
    BY <1>1
  <2>2. ByRules(l) = Registered(l, 6)
    BY <1>2, <2>1, RulesOfFirst
  <2> QED
    BY <1>1, <1>2, <2>2
<1>3. CASE Registered(l, 6) = NoHyphenator
  <2>1. \A j \in 1..6 : Registered(l, j) = NoHyphenator
    <3>1. \A j \in 1..6 : j \in 1..5 \/ j = 6
      OBVIOUS
    <3> QED
      BY <1>1, <1>3, <3>1
  <2>2. ByRules(l) = mSoftHyphenOnlyHyphenator
    BY <2>1, RulesOfNone
  <2> QED
    BY <1>1, <1>3, <2>2
<1> QED
  BY <1>2, <1>3

(* For an unknown language that is what the rules find without a script.    *)
LEMMA UnknownScriptless ==
  ASSUME NEW l, IsLocale(l), ~LanguageIsKnown(l), NEW i \in 3..5
  PROVE  ~LanguageIsKnown(Rule(l, i)) /\ ByRules(Rule(l, i)) = OfUnknown
<1> DEFINE k == Rule(l, i)
<1>1. /\ \A j \in 1..5 : Rule(k, j) = IF j <= i THEN Rule(l, i) ELSE Rule(l, j)
      /\ Rule(k, 6) = Unknown
  BY RulesOfScriptless
<1>2. \A j \in 1..5 : Registered(l, j) = NoHyphenator
  BY LastRule
<1>3. \A j \in 1..5 : Registered(k, j) = NoHyphenator
  <2> SUFFICES ASSUME NEW j \in 1..5
               PROVE  Registered(k, j) = NoHyphenator
    OBVIOUS
  <2>1. i \in 1..5
    OBVIOUS
  <2>2. CASE j <= i
    BY <1>1, <1>2, <2>1, <2>2 DEF Registered
  <2>3. CASE ~(j <= i)
    BY <1>1, <1>2, <2>3 DEF Registered
  <2> QED
    BY <2>2, <2>3
<1>4. ~LanguageIsKnown(k)
  BY <1>3 DEF LanguageIsKnown, Registered, Rule
<1>5. Registered(k, 6) = EntryOf(registered, Unknown)
  BY <1>1 DEF Registered
<1> HIDE DEF k
<1>6. ByRules(k) = OfUnknown
  BY <1>4, <1>5, LastRule DEF OfUnknown
<1> QED
  BY <1>4, <1>6 DEF k

(* And for a script of which nothing is registered.                         *)
LEMMA UnknownScript ==
  ASSUME NEW l, IsLocale(l), Registered(l, 6) = NoHyphenator
  PROVE  ByRules(Rule(l, 6)) = OfUnknown /\ ByRules(Rule(Rule(l, 6), 5)) = OfUnknown
<1> DEFINE k == Rule(l, 6)
           known == EntryOf(registered, Unknown)
<1>1. /\ \A j \in {1, 2, 6} : Rule(k, j) = k
      /\ \A j \in 3..5 : Rule(k, j) = Unknown
      /\ \A j \in 1..6 : Rule(Unknown, j) = Unknown
  <2>1. \A j \in 1..6 : j \in 1..5 \/ j = 6
    OBVIOUS
  <2> QED
    BY RulesOfScript, <2>1
<1>2. EntryOf(registered, k) = NoHyphenator
  BY DEF Registered
<1> HIDE DEF k
<1>3. /\ Registered(k, 1) = NoHyphenator /\ Registered(k, 2) = NoHyphenator /\ Registered(k, 6) = NoHyphenator
      /\ \A j \in 3..5 : Registered(k, j) = known
      /\ \A j \in 1..6 : Registered(Unknown, j) = known
  BY <1>1, <1>2 DEF Registered
<1>4. \A j \in 1..6 : j \in {1, 2, 6} \/ j \in 3..5
  OBVIOUS
<1>5. CASE known = NoHyphenator
  <2>1. \A j \in 1..6 : Registered(k, j) = NoHyphenator
    BY <1>3, <1>4, <1>5
  <2>2. \A j \in 1..6 : Registered(Unknown, j) = NoHyphenator
    BY <1>3, <1>5
  <2>3. ByRules(k) = mSoftHyphenOnlyHyphenator
    BY <2>1, RulesOfNone
  <2>4. ByRules(Unknown) = mSoftHyphenOnlyHyphenator
    BY <2>2, RulesOfNone
  <2> QED
    BY <1>1, <1>5, <2>3, <2>4 DEF OfUnknown, k
<1>6. CASE known # NoHyphenator
  <2>1. \A j \in 1..3 - 1 : Registered(k, j) = NoHyphenator
    <3>1. \A j \in 1..3 - 1 : j = 1 \/ j = 2
      OBVIOUS
    <3> QED
      BY <1>3, <3>1
  <2>2. ByRules(k) = known
    BY <1>3, <1>6, <2>1, RulesOfFirst
  <2>3. ByRules(Unknown) = known
    BY <1>3, <1>6, RulesOfFirst
  <2> QED
    BY <1>1, <1>6, <2>2, <2>3 DEF OfUnknown, k
<1> QED
  BY <1>5, <1>6

(* For a shorter locale without script nothing but what the rules find is   *)
(* stored: where its script is hidden, it has none.                         *)
LEMMA GoodScriptless ==
  ASSUME NEW l, IsLocale(l), NEW i \in 3..5, NEW h, IsGood(Rule(l, i), h)
  PROVE  h = ByRules(Rule(l, i))
<1> DEFINE k == Rule(l, i)
<1>1. IsLocale(k) /\ Rule(k, 6) = Unknown
  BY RulesOfScriptless
<1> HIDE DEF k
<1>2. CASE ~LanguageIsKnown(k)
  <2>1. ByRules(Rule(k, 5)) = OfUnknown
    BY <1>1, <1>2, UnknownScriptless
  <2>2. Registered(k, 6) = EntryOf(registered, Unknown)
    BY <1>1 DEF Registered
  <2>3. ByRules(k) = OfUnknown
    BY <1>2, <2>2, LastRule DEF OfUnknown
  <2> QED
    BY <2>1, <2>3 DEF IsGood, k
<1> QED
  BY <1>2 DEF IsGood, ScriptIsHidden, k

(* Partial locales with an entry are tried: they say something, and are not *)
(* the locale itself, which has none.                                       *)
LEMMA EntriesAreTried ==
  ASSUME NEW l \in LookedUp, mMap[l] = NoHyphenator,
         NEW i \in 1..6, EntryOf(mMap, Rule(l, i)) # NoHyphenator
  PROVE  Tried(l, i)
<1> IsLocale(l) /\ l \in Locale /\ (l.lang = Absent => Bare(l))
  BY MapAssumption, LocalesAreRecords
<1>1. Rule(l, i) # l
  BY DEF EntryOf
<1>2. i # 1
  BY <1>1 DEF Rule, RuleLocale
<1>3. IsSupported(Rule(l, i))
  <2>1. CASE i = 6
    <3>1. Rule(l, i).lang = Und /\ "lang" \in DOMAIN Rule(l, i)
      BY <2>1 DEF Rule, RuleLocale, IsLocale
    <3> QED
      BY <3>1 DEF IsSupported, Und, Absent
  <2>2. CASE i \in 2..5
    <3>1. Rule(l, i).lang = l.lang /\ "lang" \in DOMAIN Rule(l, i)
      BY <2>2, ShorterRules
    <3>2. Bare(l) => Rule(l, i) = l
      BY <2>2, ShorterRules
    <3> QED
      BY <3>1, <3>2, <1>1 DEF IsSupported
  <2> QED
    BY <1>2, <2>1, <2>2
<1> QED
  BY <1>1, <1>3, CandidatesAreRules DEF Tried

(* The rules find for l what they find for it without its style, where      *)
(* nothing is registered for either.                                        *)
LEMMA GoodFull ==
  ASSUME NEW l, IsLocale(l), Registered(l, 1) = NoHyphenator, Registered(l, 2) = NoHyphenator
  PROVE  \A h : IsGood(Rule(l, 2), h) => IsGood(l, h)
<1> DEFINE full == Rule(l, 2)
<1>1. Rule(full, 1) = full /\ \A i \in 2..6 : Rule(full, i) = Rule(l, i)
  BY RulesOfFull
<1>2. \A i \in 1..6 : Registered(full, i) = Registered(l, i)
  BY <1>1 DEF Registered
<1>3. ByRules(full) = ByRules(l)
  <2>1. CASE \A i \in 1..6 : Registered(l, i) = NoHyphenator
    BY <1>2, <2>1, RulesOfNone
  <2>2. ASSUME NEW i \in 1..6, Registered(l, i) # NoHyphenator,
               \A j \in 1..i - 1 : Registered(l, j) = NoHyphenator
        PROVE  ByRules(full) = ByRules(l)
    <3>1. \A j \in 1..i - 1 : j \in 1..6
      OBVIOUS
    <3>2. ByRules(l) = Registered(l, i)
      BY <2>2, RulesOfFirst
    <3>3. ByRules(full) = Registered(full, i)
      BY <1>2, <2>2, <3>1, RulesOfFirst
    <3> QED
      BY <3>2, <3>3, <1>2
  <2> QED
    BY <2>1, <2>2, FirstRule
<1>4. ScriptIsHidden(full) => ScriptIsHidden(l)
  BY <1>1, <1>2 DEF ScriptIsHidden, LanguageIsKnown, Registered, Rule
<1>5. Rule(full, 5) = Rule(l, 5)
  BY <1>1
<1> QED
  BY <1>3, <1>4, <1>5 DEF IsGood

(* Where the search meets the stored result for a shorter locale.           *)
LEMMA ResultIsGood ==
  ASSUME TypeOK, RegistrationWins, GoodStored, order # "late",
         NEW l \in LookedUp, registered[l] = NoHyphenator, NEW i \in 2..6,
         IsResult(Rule(l, i)), \A j \in 1..i - 1 : Registered(l, j) = NoHyphenator
  PROVE  IsGood(l, EntryOf(mMap, Rule(l, i)))
<1> IsLocale(l) /\ l \in Locale
  BY MapAssumption, LocalesAreRecords
<1> DEFINE k == Rule(l, i)
<1>1. k \in Locale /\ registered[k] = NoHyphenator /\ mMap[k] # NoHyphenator
  BY DEF IsResult, EntryOf
<1>2. EntryOf(mMap, k) = mMap[k] /\ IsGood(k, mMap[k])
  BY <1>1 DEF EntryOf, GoodStored
<1>3. Registered(l, i) = NoHyphenator
  BY DEF IsResult, Registered
<1>4. CASE i = 2
  <2>1. Registered(l, 1) = NoHyphenator
    BY <1>4
  <2> QED
    BY <1>2, <1>3, <1>4, <2>1, GoodFull
<1>5. CASE i # 2 /\ ~LanguageIsKnown(l)
  <2>1. ScriptIsHidden(l)
    <3>1. i \in 3..6
      BY <1>5
    <3> QED
      BY <1>5, <3>1 DEF ScriptIsHidden, Rule
  <2>2. ByRules(Rule(l, 5)) = OfUnknown
    BY <1>5, UnknownScriptless
  <2>3. CASE i = 6
    <3>1. ByRules(k) = OfUnknown /\ ByRules(Rule(k, 5)) = OfUnknown
      BY <1>3, <2>3, UnknownScript
    <3> QED
      BY <1>2, <2>1, <2>2, <3>1 DEF IsGood
  <2>4. CASE i \in 3..5
    <3>1. mMap[k] = ByRules(k)
      BY <1>2, <2>4, GoodScriptless
    <3>2. ByRules(k) = OfUnknown
      BY <1>5, <2>4, UnknownScriptless
    <3> QED
      BY <1>2, <2>1, <2>2, <3>1, <3>2 DEF IsGood
  <2> QED
    BY <1>5, <2>3, <2>4
<1>6. CASE i # 2 /\ LanguageIsKnown(l)
  <2>1. PICK n \in 1..5 : Registered(l, n) # NoHyphenator
    BY <1>6 DEF LanguageIsKnown, Registered, Rule
  <2>2. n > i /\ i \in 3..5
    BY <1>3, <1>6, <2>1
  <2>3. mMap[k] = ByRules(k)
    BY <1>2, <2>2, GoodScriptless
  <2>4. PICK m \in 1..6 : /\ Registered(l, m) # NoHyphenator
                          /\ \A j \in 1..m - 1 : Registered(l, j) = NoHyphenator
    <3>1. n \in 1..6
      OBVIOUS
    <3> QED
      BY <2>1, <3>1, FirstRule
  <2>5. m > i /\ m <= n /\ m \in 1..5
    <3>1. ~(n \in 1..m - 1)
      BY <2>1, <2>4
    <3>2. ~(m \in 1..i - 1) /\ m # i
      BY <2>4, <1>3
    <3> QED
      BY <3>1, <3>2
  <2>6. \A j \in 1..5 : Rule(k, j) = IF j <= i THEN k ELSE Rule(l, j)
    BY <2>2, RulesOfScriptless
  <2>7. Registered(k, m) = Registered(l, m)
    BY <2>5, <2>6 DEF Registered
  <2>8. \A j \in 1..m - 1 : Registered(k, j) = NoHyphenator
    <3> SUFFICES ASSUME NEW j \in 1..m - 1
                 PROVE  Registered(k, j) = NoHyphenator
      OBVIOUS
    <3>1. j \in 1..5
      BY <2>5
    <3>2. CASE j <= i
      BY <2>6, <3>1, <3>2, <1>3 DEF Registered
    <3>3. CASE ~(j <= i)
      BY <2>4, <2>6, <3>1, <3>3 DEF Registered
    <3> QED
      BY <3>2, <3>3
  <2>9. ByRules(k) = Registered(l, m)
    <3> HIDE DEF k
    <3> QED
      BY <2>4, <2>7, <2>8, RulesOfFirst
  <2>10. ByRules(l) = Registered(l, m)
    BY <2>4, RulesOfFirst
  <2> QED
    BY <1>2, <2>3, <2>9, <2>10 DEF IsGood
<1> QED
  BY <1>4, <1>5, <1>6

(* A search without an entry for the locale itself answers by the rules, or *)
(* misses the script that is hidden.                                        *)
LEMMA SearchIsGood ==
  ASSUME TypeOK, RegistrationWins, GoodStored, order # "late",
         NEW l \in LookedUp, mMap[l] = NoHyphenator
  PROVE  IsGood(l, Search(mMap, l))
<1> USE MapAssumption
<1> IsLocale(l) /\ l \in Locale
  BY LocalesAreRecords
<1> DEFINE Entry(i) == EntryOf(mMap, Rule(l, i))
<1>1. \A i \in 1..6 : Candidate(l)[i] = Rule(l, i)
  BY CandidatesAreRules
<1>2. \A i \in 1..6 : Entry(i) # NoHyphenator => Tried(l, i)
  BY EntriesAreTried
<1>3. \A i \in 1..6 : Registered(l, i) # NoHyphenator => Entry(i) = Registered(l, i)
  BY DEF EntryOf, Registered, RegistrationWins
<1>4. Rule(l, 1) = l /\ Entry(1) = NoHyphenator /\ registered[l] = NoHyphenator
  BY DEF Rule, RuleLocale, EntryOf, RegistrationWins
<1>5. CASE \A i \in 1..6 : Entry(i) = NoHyphenator
  <2>1. Search(mMap, l) = mSoftHyphenOnlyHyphenator
    BY <1>1, <1>5, SearchOfNone
  <2>2. \A i \in 1..6 : Registered(l, i) = NoHyphenator
    BY <1>3, <1>5
  <2> QED
    BY <2>1, <2>2, RulesOfNone DEF IsGood
<1>6. ASSUME NEW i \in 1..6, Entry(i) # NoHyphenator,
             \A j \in 1..i - 1 : Entry(j) = NoHyphenator
      PROVE  IsGood(l, Search(mMap, l))
  <2>1. \A j \in 1..i - 1 : j \in 1..6
    OBVIOUS
  <2>2. Search(mMap, l) = Entry(i)
    BY <1>1, <1>2, <1>6, <2>1, SearchOfFirst
  <2>3. \A j \in 1..i - 1 : Registered(l, j) = NoHyphenator
    BY <1>3, <1>6, <2>1
  <2>4. CASE Registered(l, i) # NoHyphenator
    <3>1. ByRules(l) = Registered(l, i)
      BY <2>3, <2>4, RulesOfFirst
    <3> QED
      BY <1>3, <2>2, <2>4, <3>1 DEF IsGood
  <2>5. CASE Registered(l, i) = NoHyphenator
    <3>1. i \in 2..6
      BY <1>4, <1>6
    <3>2. IsResult(Rule(l, i))
      BY <1>6, <2>5 DEF IsResult, Registered
    <3> QED
      BY <1>4, <2>2, <2>3, <3>1, <3>2, ResultIsGood
  <2> QED
    BY <2>4, <2>5
<1>7. \/ \A i \in 1..6 : Entry(i) = NoHyphenator
      \/ \E i \in 1..6 : Entry(i) # NoHyphenator /\ \A j \in 1..i - 1 : Entry(j) = NoHyphenator
  <2> DEFINE none(i) == Entry(i) = NoHyphenator
  <2>1. \/ \A i \in 1..6 : none(i)
        \/ \E i \in 1..6 : ~none(i) /\ \A j \in 1..i - 1 : none(j)
    <3> HIDE DEF none
    <3> QED
      OBVIOUS
  <2> QED
    BY <2>1
<1> QED
  BY <1>5, <1>6, <1>7

-----------------------------------------------------------------------------
LEMMA RulesInit == Init => GoodStored /\ NothingStored
  BY DEF Init, GoodStored, NothingStored

LEMMA RulesNext ==
  Inv /\ GoodStored /\ NothingStored /\ [Next]_vars => (GoodStored /\ NothingStored)'
<1> SUFFICES ASSUME Inv, GoodStored, NothingStored, [Next]_vars
             PROVE  (GoodStored /\ NothingStored)'
  OBVIOUS
<1> USE MapAssumption
<1>1. ASSUME NEW l \in Registrable, NEW h \in Hyphenator, Add(l, h)
      PROVE  (GoodStored /\ NothingStored)'
  BY <1>1 DEF Inv, TypeOK, GoodStored, NothingStored, Add, AfterAdd
<1>2. ASSUME NEW from \in Registrable, NEW to \in Registrable, AddAlias(from, to)
      PROVE  (GoodStored /\ NothingStored)'
  BY <1>2 DEF Inv, TypeOK, GoodStored, NothingStored, AddAlias, AfterAdd
<1>3. ASSUME NEW l \in LookedUp, Lookup(l)
      PROVE  (GoodStored /\ NothingStored)'
  <2>1. registered' = registered /\ order' # "registering" /\ (order' # "late" => order # "late")
    BY <1>3 DEF Lookup, AfterLookup, Inv, TypeOK
  <2>2. \A k : ByRules(k)' = ByRules(k)
    BY <2>1 DEF ByRules, EntryOf
  <2>3. \A k, h : IsGood(k, h) => IsGood(k, h)'
    <3>1. \A k : IsResult(k) => IsResult(k)'
      BY <1>3, <2>1 DEF IsResult, EntryOf, Lookup, Inv, TypeOK
    <3>2. \A k : LanguageIsKnown(k)' = LanguageIsKnown(k)
      BY <2>1 DEF LanguageIsKnown, EntryOf
    <3>3. \A k : ScriptIsHidden(k) => ScriptIsHidden(k)'
      BY <3>1, <3>2 DEF ScriptIsHidden
    <3> QED
      BY <2>2, <3>3 DEF IsGood
  <2>4. CASE mMap[l] # NoHyphenator
    BY <1>3, <2>1, <2>3, <2>4 DEF Lookup, GoodStored, NothingStored
  <2>5. CASE mMap[l] = NoHyphenator /\ order # "late"
    <3>1. IsGood(l, Search(mMap, l))
      BY <2>5, SearchIsGood DEF Inv
    <3>2. registered[l] = NoHyphenator
      BY <2>5 DEF Inv, RegistrationWins
    <3>3. mMap' = [mMap EXCEPT ![l] = Search(mMap, l)]
      BY <1>3, <2>5 DEF Lookup
    <3> QED
      BY <2>1, <2>3, <2>5, <3>1, <3>2, <3>3 DEF Inv, TypeOK, GoodStored, NothingStored
  <2>6. CASE order = "late"
    BY <2>1, <2>6 DEF GoodStored, NothingStored
  <2> QED
    BY <2>4, <2>5, <2>6
<1>4. CASE UNCHANGED vars
  <2>1. \A k, h : IsGood(k, h)' = IsGood(k, h)
    BY <1>4 DEF vars, IsGood, ScriptIsHidden, LanguageIsKnown, IsResult, ByRules, EntryOf
  <2> QED
    BY <1>4, <2>1 DEF vars, GoodStored, NothingStored
<1> QED
  BY <1>1, <1>2, <1>3, <1>4 DEF Next

(* While nothing was added late, lookup answers by the documented rules, or *)
(* as rule 6 does for the unknown script, where a stored result hides it.   *)
THEOREM RulesAreFollowed == Spec => FollowsRules
<1> DEFINE Follows ==
      order # "late" => \A l \in LookedUp : Lookup(l) =>
        \/ answer' = ByRules(l)
        \/ ScriptIsHidden(l) /\ answer' = ByRules(RuleLocale(l)[5])
<1>1. Inv /\ GoodStored => Follows
  <2> SUFFICES ASSUME Inv, GoodStored, order # "late", NEW l \in LookedUp, Lookup(l)
               PROVE  IsGood(l, answer')
    BY DEF IsGood, Rule
  <2>1. CASE mMap[l] = NoHyphenator
    BY <2>1, SearchIsGood DEF Lookup, Inv
  <2>2. CASE mMap[l] # NoHyphenator
    <3> l \in Locale /\ IsLocale(l)
      BY MapAssumption, LocalesAreRecords
    <3>1. answer' = mMap[l]
      <4>1. Candidate(l)[1] = l /\ Tried(l, 1)
        BY DEF Candidate, Tried
      <4>2. EntryOf(mMap, Candidate(l)[1]) = mMap[l]
        BY <4>1 DEF EntryOf
      <4>3. Search(mMap, l) = mMap[l]
        BY <4>1, <4>2, <2>2, SearchOfFirst
      <4> QED
        BY <4>3 DEF Lookup
    <3>2. CASE mMap[l] = registered[l]
      <4>1. Registered(l, 1) = registered[l]
        BY DEF Registered, Rule, RuleLocale, EntryOf
      <4>2. ByRules(l) = registered[l]
        BY <4>1, <3>2, <2>2, RulesOfFirst
      <4> QED
        BY <3>1, <3>2, <4>2 DEF IsGood
    <3> QED
      BY <3>1, <3>2 DEF GoodStored
  <2> QED
    BY <2>1, <2>2
<1>2. Inv /\ GoodStored /\ NothingStored /\ [Next]_vars => (GoodStored /\ NothingStored)'
  BY RulesNext
<1> QED
  BY <1>1, <1>2, RulesInit, InvAlways, PTL DEF Spec, FollowsRules
=============================================================================
