---------------------------- MODULE HyphenatorMap ----------------------------
(***************************************************************************)
(* HyphenatorMap of libs/minikin/HyphenatorMap.{h,cpp}: the hyphenators    *)
(* registered for locales, and the search of one for a locale nothing is   *)
(* registered for.  The result of a search is stored in the same map as    *)
(* the registrations, so that later searches can find it.  Every operation *)
(* is one critical section of mMutex, hence one action.                    *)
(***************************************************************************)
EXTENDS Naturals

CONSTANTS Locale,           \* the locales: records of subtags, see LocaleRecord
          Registrable,      \* those that add and addAlias are given
          LookedUp,         \* those that lookup is given
          Hyphenator,       \* const Hyphenator*
          mSoftHyphenOnlyHyphenator,
          NoHyphenator      \* nullptr

(* Locale::getIdentifier() keeps these fields apart; style stands for the  *)
(* emoji and the line break style, which no search uses.  A locale without *)
(* a language it can read is left empty by the constructor of Locale.      *)
LocaleRecord == [lang : STRING, script : STRING, region : STRING, variant : STRING, style : STRING]
Absent == ""
Und == "und"
Bare(l) == \A f \in DOMAIN l : l[f] = Absent

ASSUME MapAssumption ==
  /\ Locale \subseteq LocaleRecord
  /\ \A l \in Locale : l.lang = Absent => Bare(l)
  /\ Registrable \subseteq Locale /\ LookedUp \subseteq Locale
  /\ NoHyphenator \notin Hyphenator \cup {mSoftHyphenOnlyHyphenator}
  /\ mSoftHyphenOnlyHyphenator \notin Hyphenator

VARIABLES mMap,         \* locale -> hyphenator, NoHyphenator when absent
          registered,   \* ghost: what add and addAlias put there
          order,        \* ghost: "registering" before the first lookup, then
                        \* "serving", and "late" once something is added then
          answer        \* the result of the latest lookup

vars == <<mMap, registered, order, answer>>

-----------------------------------------------------------------------------
IsSupported(l) == \E f \in DOMAIN l : l[f] # Absent

(* getPartialLocale: the subtags named in bits; a dropped language is und. *)
GetPartialLocale(l, bits) ==
  [f \in DOMAIN l |-> IF f \in bits THEN l[f] ELSE IF f = "lang" THEN Und ELSE Absent]

(* What lookup tries, in order: the locale itself, then less and less of it.*)
Candidate(l) ==
  <<l,
    GetPartialLocale(l, {"lang", "region", "script", "variant"}),
    GetPartialLocale(l, {"lang", "region", "variant"}),
    GetPartialLocale(l, {"lang", "variant"}),
    GetPartialLocale(l, {"lang"}),
    GetPartialLocale(l, {"script"})>>

(* lookupBySubtag skips a partial locale that is the locale itself. *)
Tried(l, i) == i = 1 \/ (IsSupported(Candidate(l)[i]) /\ Candidate(l)[i] # l)

EntryOf(m, l) == IF l \in Locale THEN m[l] ELSE NoHyphenator

(* A variant with a mistake: the last candidate wins.                      *)
SearchScriptFirst(m, l) ==
  LET found == {i \in 1..6 : Tried(l, i) /\ EntryOf(m, Candidate(l)[i]) # NoHyphenator}
  IN IF found = {} THEN mSoftHyphenOnlyHyphenator
     ELSE LET first == CHOOSE i \in found : \A j \in found : i >= j
          IN EntryOf(m, Candidate(l)[first])

(* The first candidate the map m has an entry for, or else soft hyphens.   *)
Search(m, l) ==
  LET found == {i \in 1..6 : Tried(l, i) /\ EntryOf(m, Candidate(l)[i]) # NoHyphenator}
  IN IF found = {} THEN mSoftHyphenOnlyHyphenator
     ELSE LET first == CHOOSE i \in found : \A j \in found : i <= j
          IN EntryOf(m, Candidate(l)[first])

Init ==
  /\ mMap = [l \in Locale |-> NoHyphenator]
  /\ registered = [l \in Locale |-> NoHyphenator]
  /\ order = "registering"
  /\ answer = mSoftHyphenOnlyHyphenator

AfterAdd == IF order = "registering" THEN "registering" ELSE "late"
AfterLookup == IF order = "registering" THEN "serving" ELSE order

(* A variant with a mistake: std::map::insert instead of operator[]. *)
AddUnlessPresent(l, h) ==
  /\ mMap' = IF mMap[l] = NoHyphenator THEN [mMap EXCEPT ![l] = h] ELSE mMap
  /\ registered' = [registered EXCEPT ![l] = h]
  /\ order' = AfterAdd
  /\ UNCHANGED answer

(* addInternal overwrites, also the stored result of a search. *)
Add(l, h) ==
  /\ mMap' = [mMap EXCEPT ![l] = h]
  /\ registered' = [registered EXCEPT ![l] = h]
  /\ order' = AfterAdd
  /\ UNCHANGED answer

(* addAliasInternal does nothing for an unknown target; a target may be    *)
(* known from a search only.                                               *)
AddAlias(from, to) ==
  /\ mMap[to] # NoHyphenator
  /\ mMap' = [mMap EXCEPT ![from] = mMap[to]]
  /\ registered' = [registered EXCEPT ![from] = mMap[to]]
  /\ order' = AfterAdd
  /\ UNCHANGED answer

(* lookupInternal: the result of a search is stored for the locale.        *)
Lookup(l) ==
  /\ answer' = Search(mMap, l)
  /\ mMap' = IF mMap[l] # NoHyphenator THEN mMap ELSE [mMap EXCEPT ![l] = Search(mMap, l)]
  /\ order' = AfterLookup
  /\ UNCHANGED registered

Next ==
  \/ \E l \in Registrable, h \in Hyphenator : Add(l, h)
  \/ \E from, to \in Registrable : AddAlias(from, to)
  \/ \E l \in LookedUp : Lookup(l)

Spec == Init /\ [][Next]_vars

-----------------------------------------------------------------------------
TypeOK ==
  /\ mMap \in [Locale -> Hyphenator \cup {mSoftHyphenOnlyHyphenator, NoHyphenator}]
  /\ registered \in [Locale -> Hyphenator \cup {mSoftHyphenOnlyHyphenator, NoHyphenator}]
  /\ order \in {"registering", "serving", "late"}
  /\ answer \in Hyphenator \cup {mSoftHyphenOnlyHyphenator}

(* What was registered last for a locale is what the map holds for it: no  *)
(* stored search result hides a registration of the same locale.           *)
RegistrationWins ==
  \A l \in Locale : registered[l] # NoHyphenator => mMap[l] = registered[l]

(* Paragraphs measured again hyphenate the same way: only a registration   *)
(* changes what is found for a locale that was looked up before.           *)
LookupsChangeNothing ==
  [][registered' = registered =>
       \A l \in Locale : mMap[l] # NoHyphenator => mMap'[l] = mMap[l]]_vars

(* The locales named by rules 1 to 6 of HyphenatorMap.h, in their order.   *)
RuleLocale(l) ==
  LET full == [l EXCEPT !.style = Absent]
      scriptless == [full EXCEPT !.script = Absent]
      regionless == [scriptless EXCEPT !.region = Absent]
  IN <<l, full, scriptless, regionless, [regionless EXCEPT !.variant = Absent],
       [l EXCEPT !.lang = Und, !.region = Absent, !.variant = Absent, !.style = Absent]>>

(* What the rules find among the hyphenators that were registered.         *)
ByRules(l) ==
  LET ok(i) == EntryOf(registered, RuleLocale(l)[i]) # NoHyphenator
  IN IF \E i \in 1..6 : ok(i)
     THEN EntryOf(registered, RuleLocale(l)[CHOOSE i \in 1..6 : ok(i) /\ \A j \in 1..i - 1 : ~ok(j)])
     ELSE mSoftHyphenOnlyHyphenator

(* Whether rules 1 to 5 find a hyphenator that was registered.             *)
LanguageIsKnown(l) == \E i \in 1..5 : EntryOf(registered, RuleLocale(l)[i]) # NoHyphenator

(* The map stores the result of an earlier lookup for the shorter locale k. *)
IsResult(k) == EntryOf(registered, k) = NoHyphenator /\ EntryOf(mMap, k) # NoHyphenator

(* Rules 1 to 5 find nothing for l, and rule 6 comes too late: the search  *)
(* meets the stored result for a locale of rules 3 to 6.                   *)
ScriptIsHidden(l) == ~LanguageIsKnown(l) /\ \E i \in 3..6 : IsResult(RuleLocale(l)[i])

(* While every hyphenator was added before the first lookup, the results   *)
(* that lookups store never hide a hyphenator registered for a locale of   *)
(* rules 1 to 5: lookup answers as its documented rules do, which speak of *)
(* what was added and know nothing of stored results.  The hyphenator of   *)
(* rule 6 can be hidden by the result for a shorter locale, and by nothing *)
(* else; the answer is then the one for the language on its own.           *)
FollowsRules ==
  [][order # "late" => \A l \in LookedUp : Lookup(l) =>
       \/ answer' = ByRules(l)
       \/ ScriptIsHidden(l) /\ answer' = ByRules(RuleLocale(l)[5])]_vars

(* What HyphenatorMap.h promises: the hyphenator stored for a locale that  *)
(* was looked up is the one its rules 1 to 6 find.                         *)
RulesAreKept ==
  order = "serving" => \A l \in LookedUp : mMap[l] # NoHyphenator => mMap[l] = ByRules(l)

=============================================================================
