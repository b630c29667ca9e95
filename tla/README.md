# Verification of minikin

TLA+ models of minikin, the text layout library of Android, checked by TLC on
small instances and, where state is shared or the argument does not depend on data,
proved by TLAPS for every instance. All paths are relative to the root of the
repository; `L/` abbreviates `src/libs/minikin/` and `I/` abbreviates
`src/include/minikin/`.

Contents: 1 the system, 2 the models, 3 the runs, 4 the proofs, 5 what the code
does that a comment or a document denies, 6 what is not modelled, 7 what is left.

## 1. The system

minikin takes a paragraph of UTF-16 text with its paints, splits it into runs,
finds a font for every character, has HarfBuzz shape every piece, and breaks the
result into lines. Most of it is functional; state that outlives a call, and that
threads share, is in four caches and a pool.

| Component | State | Operations | Used by |
|---|---|---|---|
| `LruCache` (`src/include/utils/LruCache.h`) | hash set of entries, which are also the nodes of a list from the oldest to the youngest; a listener | `get`, `put`, `remove`, `removeOldest`, `clear`, `peekOldestValue`, `setOnEntryRemovedListener` | `LayoutCache`, which serialises the calls |
| `LayoutCache` (`I/LayoutCache.h`) | an `LruCache` of heap-allocated layouts, one mutex | `getOrCreate(…, f)`, `clear`; it is its own listener and deletes what leaves | every thread that measures or draws (`L/Layout.cpp`, `L/MeasuredText.cpp`, `I/LayoutPieces.h`) |
| `LocaleListCache` (`L/LocaleListCache.cpp`) | vector of locale lists, table string → index, one mutex | `getId`, `getById` (a reference into the vector) | paints, `FontCollection`, the line breakers |
| `HyphenatorMap` (`L/HyphenatorMap.cpp`) | locale → hyphenator, one mutex | `add`, `addAlias`, `lookup` (which stores what it found), `clear` | the line breakers |
| ICU line breaker pool (`L/WordBreaker.cpp`) | up to four ICU break iterators with the locale of each, one mutex | `acquire`, `release` | `WordBreaker` |
| `WordBreaker` | a break iterator, the text, the current word, the state of the address and URL detection | `setText`, `followingWithLocale`, `next`, `wordRange`, `breakBadness`, `finish` | the line breakers |
| `GreedyLineBreaker` | position, widths of the line, last word boundary, break points | `process` | `breakIntoLines` |
| `OptimalLineBreaker` | candidates with scores and a range of active ones | `populateCandidates`, `computeBreaks` | `breakIntoLines` |
| `MeasuredText`, `LayoutPieces` | the runs, widths, extents, the pieces that later layouts may reuse | `measure`, `buildLayout`, `getBounds`, `getExtent` | callers of the library |
| `LayoutSplitter`, `Layout`, `LayoutCore`, `BidiUtils` | none beyond a call | split into pieces at words, shape, compose | `LayoutCache`, `MeasuredText` |
| `FontCollection`, `FontFamily`, `Font` | immutable tables: families per page of characters | `itemize`, best family for a character, closest font for a style, variations | `LayoutCore` |
| `SparseBitSet`, `CmapCoverage` | read-only bitmap of characters | build from the font's tables, `get`, `nextSetBit` | `FontFamily` |
| `Locale`, `LocaleList` | values | parsing, partial locales, identifiers, scores | fonts, hyphenation |
| `Hyphenator`, `mk_hyb_file.py` | binary pattern trie, read only; the tool's trie while it builds one | `hyphenate`; patterns and exceptions to a file | `LineBreakerUtil` |
| `Measurement`, `GraphemeBreak` | none | carets of a run | callers |

Behaviours that are hard to test, and the properties that would show them wrong
(`PROJECT.json` lists every one at its line):

* **Threads and the layout cache.** The mutex is released while text is laid out
  and kept while a caller's function reads a cached layout. A layout must be
  deleted once, by whoever owns it, and never under a reader; each call must call
  its function once with the layout of its own text; calls must return.
* **The list inside the LRU map.** Every order of put, get, remove and clear must
  keep the list and the hash set together; every value that leaves is told to the
  listener exactly once, because the listener is what frees it.
* **Ids and references of locale lists.** Ids are compared instead of lists, so an
  id must keep its meaning; references must not outlive a reallocation.
* **Search results stored among registrations.** Later searches find stored results
  too: one must not hide a registration, though the search rules know only registrations.
* **A packed pattern trie.** The tool shares suffixes, packs nodes into each other's
  gaps and shares results; the reader walks the packed tables. Every word must break
  where the patterns say.
* **Break iterators that travel.** A pooled iterator has one holder, the locale
  asked for, and never the text of its former holder.
* **Line breaking.** Widths are differences of sums begun lines before; a
  word boundary is remembered across breaks; three nested loops each continue
  until the line fits; the optimal search prunes candidates for good; candidates are
  merged from two lists kept by offset.
* **Coverage and fallback.** Ranges that touch page ends, share zero pages, overlap in
  two sorted lists; a score that packs three orders into one number; characters that are
  taken back from one font's run to the next.
* **Pieces.** A run is cut into words by two searches that must agree; a piece is found
  again by its key, also one measured for another purpose; hyphens shift the
  clusters of the glyphs behind them.
* **Carets.** Several clusters may share a ligature's advance; the caret nearest to a
  touch must be a place where a caret may stand.

## 2. The models

| Module | Models | Notes |
|---|---|---|
| `LruOrder` | the parameters of the class template, a recency order as a relation | shared by the next two |
| `LruCacheSpec` | what `LruCache` promises: a map, a recency order, what the listener is told | abstract specification |
| `LruCache` | the hash set and the linked list on a small heap | implements `LruCacheSpec` (`KeepsPromise`) |
| `LayoutService` | what `getOrCreate` promises its callers | abstract specification |
| `LayoutCache` | threads in `getOrCreate` and `Layout::purgeCaches`, the mutex, the heap of layouts | implements `LayoutService` (`KeepsService`), its map is `LruCacheSpec` |
| `LocaleListCache` | registration and lookup by several threads, growth of the vector, references held | |
| `HyphenatorMap` | registrations, aliases, lookups | |
| `HybFile` | `mk_hyb_file.py`: its trie, compression, packing, tables, verification | |
| `Hyphenate` | `Hyphenator.cpp`: `hyphenate` on a file of `HybFile` or on none | extends `HybFile` |
| `LineBreakerPool` | the pool and the `WordBreaker`s that use it | |
| `GreedyLineBreaker` | `process` with every helper, on one paragraph | |
| `OptimalLineBreaker` | the passes over the text that find hyphenation and candidates, and `computeBreaks` | extends `GreedyLineBreaker`'s paragraph |
| `LineBreaker` | `breakIntoLines`, which chooses a breaker, and what lines promise | composes both breakers |
| `WordBreaker` | ICU's boundaries filtered, addresses and URLs and the breaks in them, word ranges | pure operators |
| `WordsAndLines` | the loops over runs that ask a `WordBreaker` for boundaries, then the lines | composes `WordBreaker` and `LineBreaker` |
| `SparseBitSet`, `CmapCoverage` | building and reading the bitmap; reading the tables of a font | pure operators |
| `CmapReader` | `computeCoverage`: one font is read, whatever is in its `cmap`; what the format says of it | extends `CmapCoverage` |
| `Locale` | parsing, identifiers, partial locales, scores | pure operators |
| `FontFamily` | style of a font, closest font, coverage, variations | extends the three above |
| `FontCollection` | page table, choice of a family, `itemize`, collections with variations | extends `FontFamily` |
| `LayoutPiece` | `LayoutSplitter`, `LayoutUtils`, `BidiText`, `LayoutCore`'s piece, `Layout::doLayout` and `measureText` | pure operators |
| `MeasuredText` | the builder, `measure`, kept pieces, hints, `buildLayout`, bounds and extents | composes `LayoutPiece` |
| `Carets` | grapheme breaks, `getTextRunCursor`, `getRunAdvance`, `getOffsetForAdvance` | pure operators |
| `…Proofs` | theorems and proofs (section 4) | |
| `MC…` | constants for TLC; in `MCHyphenatorMap` and `MCText` also the definitions the pure functions are compared with | |

**LruCache.** One record holds the hash set, the nodes and both ends of the list,
so that a public operation composes the member functions it calls, as the class
does: `Put` evicts with `WithoutOldest`, which removes by key, and `Inserted` is the rest of
it. `Chain` is the list as `clear` walks it, along `child` until `nullptr`. Listener calls are
kept as a sequence, so a call made twice or after the deletion shows. The
refinement maps the list to the relation "is older than" and each entry to its value.

**LayoutCache.** The actions are the stretches between which threads interleave:
`Begin` (also the constructor of the singleton, which sets the listener),
`Hit` (lock, find) and `ReadHit` (f runs, unlock), `Miss` (lock, find nothing,
unlock), `LayOut` (no lock), `Insert` (lock, put, unlock), `Bypass`, `Return`,
`Purge`. `heap` says what each allocated layout was made for; the listener's
delete is part of the action whose put or clear tells it. `lost` counts layouts
that a refused put leaves without an owner; the model then reuses their address,
which keeps the state space finite. The LRU map inside is the abstract one:
`LruCache` implements it. `LayoutsAreBounded` ties the capacity of the map to the memory the
cache uses: the layouts on the heap, but for lost ones, are at most the capacity and one for each
thread between its miss and its put.

**LocaleListCache.** A string is a sequence of tags; ICU, which maximises tags, is
the constant operator `IdentifierOf`. The vector's buffer has a number that
changes when `push_back` reallocates. `refs` holds the references of a caller
between `getById` and the end of its use: `calcLocaleMatchingScore` holds two at
once, other callers one. Callers hold none while they register a string.

**HyphenatorMap.** Locales are records of the subtags that `getIdentifier` tells
apart. Registered locales have the forms that the Java side registers; looked-up
ones are any, because `LocaleListCache` keeps `und-Ethi` as it is and a language ICU does not
know without a script. All that is assumed is that a locale without a language is empty,
as its constructor leaves it. `order` is a ghost that says whether something was added after
the first lookup. `FollowsRules` compares each answer with the rules of the header, applied to
registrations only: stored results change nothing of rules 1 to 5, and hide the hyphenator of rule 6 only
where the result for a shorter locale is stored (`ScriptIsHidden`), when the answer is the one for the
language alone. `RulesAreKept` is what the header says, without that exception (section 5).

**HybFile and Hyphenate.** The tool's actions are its phases: a pattern or an exception
is added to the trie, then `dedup`, `pack` and the three tables make the file, a record of
functions that the reader indexes. Bytes are left out; numbers keep what a mask or a
shift does to them. `hyphenate` is an operator of a file and a word: the alphabet in both
formats, the walk of the trie at each offset, the maximum of the numbers, and the
fallback for words with letters of their own (hyphens, soft hyphens with Arabic joining,
the middle dot of Catalan). A word is a sequence of UTF-16 units.

**LineBreakerPool.** Two `WordBreaker`s on two threads. `followingWithLocale` is
two actions (the call of `acquire`, and the assignment with `ubrk_setUText`),
because the mutex only covers the first. Addresses are reused after a close.

**GreedyLineBreaker.** A paragraph is a record: kinds and widths of characters, word
boundaries with what `breakBadness` says at each, runs with the ids of their locale lists, hyphenation points, the
widths of the lines, the frequency of hyphenation. `IsParagraph` names what ICU, `WordBreaker` and
the measuring guarantee: widths are not negative, spaces stay with the word before them, clusters are divided
only in an address or URL, a URL ends somewhere. `Scan` is one round of the loop of `process` for
one character; at a boundary `pc` becomes `fit` and the actions are the choices of
`processLineBreak`: `BreakAtWord`; `StartHyphenating`, then `KeepPiece`,
`BreakInWord` and `BreakLastPiece` for the rounds and the end of the loop in
`tryLineBreakWithHyphenation`; `BreakAtGrapheme`; `RememberWord` when the line fits.
`Finish` is what follows the loop. `ReadOutside` is the read of
`hyphenResult` outside its bounds, after which the behaviour is undefined and the
model stops. Hyphenation types are reduced to their effect on widths: a hyphen on
this line, one on the next, none.

**OptimalLineBreaker and LineBreaker.** The optimal breaker runs in one go, so its passes are
operators: `MeasuredHyphenBreaks` walks the text as `MeasuredText::measure` does and
collects hyphenation points; `PopulateCandidates` walks it again, consumes that
list, makes desperate breaks and merges both as `appendWithMerging` does. Each has a `CharProcessor` of its
own, with the locale it was given last: `measure` gives its one no runs that cannot be broken
(`MeasureChar`), so what is a change of locale differs between the two (`MeasuredAnew`, `NewLocale`).
The boundaries are those of the paragraph for both, wherever a pass begins to look for them;
`ComputeBreaks` is the double loop with `active` and `bestHope`. Scores are integers instead
of floats. `BreakOptimally` is the action that stores the result; `BreakGreedily` is one
step of the greedy breaker, which is also taken for a paragraph with a tab.

**WordBreaker and WordsAndLines.** ICU is a constant of a text: for each locale, the
offsets at which its iterator stops. `WordBreaker` is a record of the members that
change, and each function of the class is an operator from the record to the next.
`WordsAndLines` calls it as `process` and `CharProcessor` do. They differ at the end of a
run: `process` asks for the next boundary as soon as it has met one and may then change
the locale (`MeetWord`, `MeetRun`); `CharProcessor` asks at the character behind,
after the locale was changed (`MeetWordAndRun`). What is met becomes the boundaries of the
paragraph, with the runs at which a change of locale found an address that was not
found before (`foundAt`), from which the line breakers go on. They only read them, so meeting
all of them first changes nothing.

**Fonts.** A font file is its `cmap` subtables, the weight and slant of its `OS/2`
table and its axes; a subtable says whether it fits into the file, whether only
its head does, or whether its data is cut off. `SparseBitSet` keeps the pages, zero page and
elements of the class with small sizes. `CmapReader` reads one font, with the action `Read`. `FontCollection` has the actions `Open` (a family),
`Create`, `Vary`, `Itemize`; `itemize` repeats for each character of the text (`SeeNext`) what
the loop does for one. Character classes are constants, as the tables of Unicode are data.

**Text.** A text is a sequence of units; HarfBuzz is the function `GlyphAdvance`
of the characters in a piece, one glyph each, a mark having its base's cluster. `measure`
follows `StyleRun::getMetrics` and the hyphenation pieces with the keys they are stored
under, `LayoutPieces` is a function of those keys, and `getOrCreate` calls the layout
again where a key is missing. The actions are those of the builder: `addStyleRun`,
`addReplacementRun`, `build` with or without hyphenation, kept pieces and a hint. A hint
is taken to have the same runs; the code does not ask for it (section 5). Carets are asked of a run of their own with
every assignment of advances that fonts can give its clusters.

Deliberate reductions: characters have a kind, a width or a class instead of a code; a
layout is its key and its advances; in `HyphenatorMap` a hyphenator is an atom; the pool holds 2
instead of 4, the layout cache 2 instead of 5000, a page 4 characters instead
of 256, `FONT_LOCALE_LIMIT` is 2 instead of 12 in `locale_lists`.

## 3. The runs

Expected to pass:

| Run | Question | Bounds, and why they are enough |
|---|---|---|
| `lru_list` | Do the list and the set agree, is each leaving entry told once, does the class implement `LruCacheSpec`? | 3 keys, 2 values, room for 2: the third put evicts, a refused put differs from an accepted one; 3 addresses, so freed ones are reused; entries are detached old, young, alone |
| `layout_cache` | No dangling layout, one owner, loss only by a race; layouts on the heap bounded; `LayoutService` implemented; calls return | 2 threads, 3 cacheable keys for 2 entries and one that bypasses: threads race for one key, evict and purge what the other laid out. More threads: section 4 |
| `locale_lists` | Ids keep their meaning, lists have no repeated locale and at most the limit | 2 threads, 5 strings: empty, unsupported only, two spellings of one locale, one beyond the limit; the vector grows twice |
| `hyphenators` | Registrations win; the documented rules hold until something is added late, but for scripts of languages looked up before; files of the tool hyphenate as their patterns say | map: 4 registrable locales, one for each of rules 3 to 6, 2 hyphenators, 6 looked-up locales: with a variant, of an unknown language with and without script and emoji style, a script alone, the empty one; any order of calls. Files: every sequence of up to 2 of 14 patterns and one of 4 exceptions over letters with a shared code, 4 margins, every word of up to 5 letters and some that are too long, every word of up to 4 units of hyphens and foreign letters, without a file in 3 languages. 165,000 states |
| `breaker_pool` | One holder, right locale, own text, no leak | 2 word breakers, 3 locales, room for 2, 6 addresses (2 pooled and 2 per word breaker): the pool misses, hits, overflows. Any number: section 4 |
| `lines` | Lines in order, not empty and with the text; widths as drawn; overfull only for one cluster; as many words, as long a piece as fit; optimal breaks are best; hyphens are offered; the greedy loops end; what `WordBreaker` finds is a paragraph as the line breakers need it | every paragraph of ten families and the words of short texts (below), 1,028,000 states |
| `fonts` | Coverage is what tables map; the walk over it; variation sequences; page table; best family; runs tile the text with fonts that can draw it | every pair of format 4 segments and format 12 groups over a few code points around page ends, mixes of 16 kinds of subtables, variation tables with up to 2 ranges in each list; up to 3 of 5 families in every order over 16 characters in 4 pages; 208 texts of up to 3 characters of every class. 512,000 states |
| `text` | Words tile any range; measured as drawn; layouts show their text; hints keep widths; nearest caret | 5 texts of up to 6 units: hyphenated words, a word replaced as it is hyphenated, marks, line ends, both directions; two paints, one with letter and word spacing; runs cut anywhere the text allows; carets of every run of up to 3 code points of 10 kinds and 4 of 3 kinds, with every choice of ligatures. 69,000 states |

The families of `lines` cover the interactions separately, because their product
is too large. Greedy: *mixed*, 3 or 4 characters of width 0, 1, 2, spaces and tabs, in one or two
runs that may or may not be broken, lines of width 1 or 2, no hyphenation;
*hyphenated*, 3 or 4 letters and spaces in one or two runs with every choice of
word, address and URL boundaries and of hyphenation points, lines of width 2 or 3; *quoted*, five letters
and opening marks, hyphenated. Optimal: *justified*, 5 letters and spaces with both strategies,
hyphenation and shrinking spaces; *narrow*, clusters on lines from 1 to 3; *address*, URLs in
two runs with and without a change of locale; *replaced*, runs that cannot be broken and
full hyphenation; *skipped*, a run that cannot be broken between two that can, of the locale of either, of both
or of none, with every choice of word, address and URL boundaries; *uneven*, widths and indents that differ by line. Three lines are the
least that show a width carried over two breaks; all families reach three. Hyphenation on
lines narrower than a cluster, and hyphens that start the next line of the greedy breaker, are left out
because its properties do not hold there (section 5). `WidthsAreDrawn`,
`OverfullIsOneCluster` and `TakesAsManyWords` leave out
paragraphs with tabs, whose width depends on a place that is not computed again
when a line moves. `TakesAsManyWords` counts a URL as one word. `OptimalIsBest` compares the choice
with every path through the candidates whose lines exceed their limit, or have to shrink, only with their last
candidate; *spaced*, ten words between wide spaces, is a text of justified lines where a path with more
shrinking would be better (section 5).

The texts of `lines` are all of three pieces: parts of addresses and URLs with spaces and combining
marks; an `@` and what URLs are broken at, for both breakers; hyphens, opening and
soft ones, emoji with joiners, styles and modifiers. A run may end anywhere, and the second one
has another locale. ICU may stop anywhere but where UAX #14 keeps characters together or
asks for a break, in one locale fewer times than in the other. Three pieces are the least with which
an address that began before a change of locale ends behind it with a mark.
`WordsMakeAParagraph` compares the boundaries with `IsParagraph` and `wordRange()` with the `WordRange`
of the line breakers, and says that the loop goes forward; the lines of these paragraphs are then
broken under the other properties. `WidthsAreDrawn` leaves out lines cut inside a word that holds
spaces, as one before `:` may (section 5).

The pure functions of `fonts`, `hyphenators` and `text` are compared with definitions that
do not look at the code: what a segment maps in the words of OpenType, Liang's numbers
read from the pattern lines, the order of merits as a tuple instead of a packed number,
the word a unit is in, the caret of least distance.

Expected to be violated, each a finding of section 5: `locale_lists_refs`, `hyphenators_rules`,
`optimal_widths`, `carets`.

Every property of a passing run has a mutant in `PROJECT.json`: a definition, the
way a plausible mistake would write it (the operators commented "a variant with a
mistake"), under which TLC finds the property violated.

**Fairness.** `layout_cache` assumes weak fairness of every thread that is inside
`getOrCreate`: it keeps running, and gets the mutex when it stays free. Nobody is assumed to
start a call or a purge. A plain `std::mutex` promises no order among threads that
keep coming, so `CallsReturn` speaks of what follows the last new work: from then on
the other threads take the mutex at most twice more, and it stays free in the end.
`lines` assumes that the one thread that runs `process` runs on (`FairWordsAndLinesSpec`, of the
greedy breaker's steps; that the search for words goes forward is part of `WordsMakeAParagraph`). No other run uses
fairness.

**Deadlock** is checked wherever the system goes on for ever: the caches, the map of
locale lists and the pool. `lines` stops at the end of a paragraph, `fonts` when a text
is itemized, `hyphenators` when its file is made; `optimal_widths`, `carets` and the caret part
of `text` are single calls. They say so in their configurations.

## 4. The proofs

| Theorem | Establishes | Along |
|---|---|---|
| `LruCacheSpecProofs` `CacheSafe`, `CapacityKept`, `RecencyKept` | type, capacity, recency order, for every capacity, key and value set | `Inv` = `TypeOK`, `RecencyOrder` and `WithinCapacity`. The capacity alone is not inductive: `Put` removes exactly one entry only if the order has exactly one oldest, for which a lemma shows that a finite total order has one |
| `LruCacheProofs` `ListIsWellLinked`, `EachToldOnce` | the hash set and the doubly linked list hold the same entries, linked alike in both directions; no entry is told twice; for any keys, values, capacity and finite heap | `Inv` = `TypeOK`, `Sound`, `ToldOnce`. `Sound` says that there is *some* sequence of entries that the pointers link (`Linked`) and no two of which share a key (`Keyed`); each member function is a lemma about that sequence (`detachFromCache` cuts one entry out, `attachToCache` appends one), and a walk along `child` visits all of it |
| `LruCacheProofs` `ListImplementsMap`, `ListKeepsCapacity` | `LruCache` implements `LruCacheSpec`, so the capacity proved of the map holds of the list | each operation under the refinement: cutting an entry out of the sequence drops its key from the order, appending one makes its key the youngest, and evicting the head of the list removes the key that `LruCacheSpec` calls oldest |
| `LayoutCacheProofs` `CacheInv`, `NoDanglingLayout`, `EachHasOneOwner`, `LossNeedsRace` | safety of the shared cache for any number of threads | `Inv` adds what each thread's locals hold at each point (`Locals`, `Pieces`), that the mutex is held exactly while a hit is read (`LockHeld`) and that the listener is set before anything can leave (`ListenerSet`). One lemma per action |
| `LayoutCacheProofs` `ServiceKept` | `LayoutCache` implements `LayoutService` | each step maps to a step of the service or a stutter; the invariant says what `f` was given |
| `LayoutCacheProofs` `LayoutsBounded` | layouts that are allocated and not lost are no more than the capacity and one for each insertion under way, for any number of threads | every allocated layout is the value of an entry or the local of a thread that will insert it (`OwnersBoundLayouts`, from `Pieces`), and different ones have different owners; the entries are within the capacity because the map is one of `LruCacheSpec` (`CacheIsMap`, with `CapacityKept`) |
| `LocaleListCacheProofs` `IdsAreStable`, `ListsNeverChange`, `OneThreadRefsAreValid` | ids keep their meaning, lists never change; with one thread references never dangle | `Inv` = `Shape`, `Registered` (what the table says of the vector), `Answered` (ids given out agree with the table). The last theorem shows that the violation of `locale_lists_refs` needs two threads |
| `LocaleListCacheProofs` `ListsStayClean` | for any strings and limit: only id 0 has no locale, no list repeats one, none exceeds the limit | `Accept` keeps a list clean, so each prefix of the string gives a clean list: the function that parses exists and is clean, by the shortest prefix where it would not be |
| `HyphenatorMapProofs` `MapTyped`, `RegistrationsWin`, `LookupsKeepResults` | registrations win, lookups keep results, for any locales, maximised or not | `Inv` = `TypeOK` and `RegistrationWins`; that `lookup` never answers `nullptr` is the lemma `SearchFinds` |
| `HyphenatorMapProofs` `RulesAreFollowed` | while nothing is added late, lookups answer by the documented rules, or, where a script is hidden, by the rules for the language alone; for any locales, with no hypothesis on the looked-up ones (`FollowsRules`) | `GoodStored`: whatever is stored for a looked-up locale is what the rules find, or, where its script is hidden, what they find for the language alone (`IsGood`). The search's candidates are the rules' locales (`CandidatesAreRules`); a stored result met on the way is that of a shorter locale, whose rules are a tail of the longer one's (`RulesOfFull`, `RulesOfScriptless`, `RulesOfScript`), so only rule 6 can be missed (`ResultIsGood`, `SearchIsGood`) |
| `LineBreakerPoolProofs` `EachHasOneHolder`, `LocalesAreRight`, `NoneLeaks`, `OwnTextIsRead` | the four properties of the pool, for any number of word breakers, locales, texts and any size of the pool | `Inv` says of each kind of place what the properties say of all: iterators are `Apart`, `OpenForLocale`, every open one is `Kept`; `Following` adds what a word breaker holds between `acquire` and `ubrk_setUText`, `Reading` the text it reads. None of them is inductive alone: an iterator from the pool is right for its next holder only because nobody else holds it. `Erased` and `Pushed` are the lemmas about the pool's vector |
| `FontCollectionProofs` `CoverageIsRight`, `WalkIsRight` | for any `cmap`, however broken, and any sizes of pages, elements and glyph ids: the coverage that is read holds only code points that the best readable table maps, all of them if the table is in order, and `nextSetBit` walks over exactly those | the ranges of a table are in order and apart and inside what it maps, with every segment, group or single code added (`SegmentsRead`, `GroupsRead`; a segment taken as a whole reaches no glyph 0, `WholeSegment`). A set that is being built is tied to its values twice: `Laid` says which page has which row, each its own but for the shared empty one, and `HoldsAll` that the bits of a row are the values of its page. `calcNumPages` counted exactly these rows, so no element is written that was not allocated (`BuildsAre`). The search for a table finds the least priority and the first of it, though it stops early (`TablesAreChosen`). `ReadRight`, that what is kept was read, is the inductive invariant: `CoverageIsTheMapping` alone would hold of any other coverage with the same members |
| `FontCollectionProofs` `SequencesAreRight` | for any `cmap` and any variation selector: its bit set holds exactly the bases with a glyph of their own and the default ones that the base coverage has, if the first record of the selector is sound: both its tables are in the file and in order, and no code point lies behind the last (`initFromRanges` would make the set empty) | what `mergeRanges` keeps at every turn: the ranges written, the one being merged and those left of both lists hold together the values of the two lists, and what is left lies behind what is written (`MergingGoesOn`), so the last `addRange` never fails, as its comments say. Every turn takes a range, so the count of turns is enough (`RangesAreMerged`). The two tables give lists in order (`CodesAreRead`, `PartsAreRead`); records are read from the last to the first, and none that is read later resets the set of another selector (`RecordsAreRead`) |
| `FontCollectionProofs` `PagesAreRight` | for any families of any fonts: each page of a collection lists, in order, exactly the families that cover a code point of it | the loop over pages keeps, for each family, the first code no page so far has (`Pages`), which `nextSetBit` gives (`NextIsRead`). `AreLists`, that every collection is made of families that were opened or varied, is inductive; the property is not, as it says nothing of families that are not in a collection yet |
| `FontCollectionProofs` `RunsTile` | the runs of a text tile it and those asked for are final, for any fonts, texts and numbers of runs, whatever families the search gives | `Walked`: the runs so far tile the text up to the walk, and the last one began no later than the last character, so it may give that one up; `RunsOf`: a walk that has stopped has the runs of the one that went on, but for the last. One lemma per way in which a character goes on with a run or begins one |
| `FontCollectionProofs` `BestWins` | a character that some family covers is given to the best of them by merit, for any families, characters, variation sequences, variants and locale lists of up to 12 locales | scores are in the order of merits (`ScoresCompare`): locale scores are digits in base 5, of which the first difference decides (`ValuesCompare`), and their number stays below 2^28 (`ValueFits`), so it reaches neither into the coverage above nor from the variant below (`PackedCompare`); the loop over candidates keeps the best so far (`BestIsFound`), and what it finds first no decomposition replaces |
| `FontCollectionProofs` `CoveredIsDrawn` | a covered character that needs a font is in a run that draws it | `Drawn`, of what the walk has seen: whoever is in a run is drawn by its family, before the first run nobody needs a font, and the character before is the one a mark may take along. A run that gives up its last character holds fewer (`GivingUpNarrows`); the one that takes it covers it (`BeginningDraws`) |
| `FontCollectionProofs` `CodesAreReadBack`, `ScriptsAreReadBack`, `IdentifiersDiffer` | packing of languages, regions and scripts is undone by unpacking; `getIdentifier` differs for locales that differ | arithmetic on the fields, one after the other |
| `LineBreakerProofs` `AllTextIsOnLines` | for every paragraph, of any length and widths: the greedy breaker's offsets are in order, and when done its lines have all of the text | `Inv` says where each remembered offset lies: the word to fall back to (`Remembered`) and the hyphenation loop (`Hyphenating`) are never behind the last break, and once all is scanned the end is broken at or remembered (`EndKept`). `WordRangeBounds` rests on least and greatest members, from well-foundedness |
| `LineBreakerProofs` `LinesHaveCharacters`, `LinesAreDrawnAsMeasured`, `OverfullLinesAreClusters`, `LinesTakeAsManyWords`, `PiecesAreLongest` | what `lines` checks of the greedy breaker, for paragraphs of any length, any widths, limits, boundaries and points of hyphenation (but for the hypotheses below): lines hold characters, have the width they are drawn with, are too wide only for one cluster, end after the last word that fits, and with a hyphen only after the longest piece that fits | `Filling`, an invariant of the steps, adds to `Inv` that the lines so far are good (`GoodLines`) and why the next one will be: the two widths are the sum of the characters since the last break, and that sum up to the last character that is not a space (`Measured`); boundaries already passed are no better than the one to fall back to (`Placed`), which fits (`FellBack`); the piece the hyphenation loop keeps fits (`Piecing`). None of the five properties is inductive: each speaks of lines that are done. Every action that breaks is one move of the start of the line (`Moves`), after which `MovesFilling` restores the invariant once for all of them; the lemmas before are about sums of widths (`SumSplit`), drawn widths (`DrawnRest`) and places between clusters (`Cut`, `NoCut`) |
| `LineBreakerProofs` `OptimalBreaksAreBest` | for every paragraph, any widths, limit, penalties and candidates, of any number: the pruned search of the optimal breaker finds the best score of all ways to break whose lines fit but for their last candidate (`OptimalIsBest`) | three loops, each with what is known after any of its turns. Over the starts of a line (`Searched`): those the active range passed over would be too long, and those `bestHope` passes over are no better, because a line that starts later leaves more of the width (`SlackGrows`, `StretchGrows`). Over the ends (`Known`): the noted score is the least over starts that fit one candidate before (`Least`) and that of the noted link (`Exact`); `Least` alone says nothing of the breaks that are then chosen by following the links (`ChosenHasItsScore`). Line by line, no way to break adds less than the noted scores do (`NoneIsBetter`). The candidates of any paragraph are made of numbers (`PopulatedIsTyped`), through every pass over its text, so no hypothesis is left |
| `LineBreakerProofs` `HyphensAreAllOffered` | for every paragraph, with any runs, boundaries and locales: each hyphenation point within a word, found by the measuring pass, is a candidate of the optimal breaker between the boundaries around the word (`HyphensAreOffered`) | two passes, each with a processor of its own. The one that makes candidates sees every character and so waits for the next boundary always (`Follows`, `GoesThrough`); the measuring one loses its place in a run that is skipped and finds it where it is given a run of another locale than the last it was given (`LocaleIsMeasured`, `Waits`, `FollowsWhenAnew`), from which on no run before the word is skipped (`LastChange`). The points of the word are then found (`PointsHave`), behind all others found before (`BreaksBehind`); `hyIter` has not passed them when the word is passed (`PointsWait`), and merging with desperate breaks loses none (`MergedHas`) |

The assumptions are the named `ASSUME`s of the modules: distinguished values are
distinct, capacities are natural numbers, the empty string has an empty list, texts are sequences of code points, the scores that stand for overfull lines and desperate breaks are natural
numbers (nothing is assumed of how large they are), a locale list has
at most the 12 locales that `LocaleListCache` keeps (more would not fit into 28 bits), decompositions are
finitely many, paragraphs are as `IsParagraph` says, elements divide pages and a set can hold every code point, fonts have a `cmap` whose tables have the
numbers that fit into it (`IsCmap`; nothing is assumed of their order or of what they map), families have a font (`IsFontList`). TLC evaluates them in every run, and `lines` checks the last
one of what `WordBreaker` finds (`WordsMakeAParagraph`). The bounds of the model
are constants of the theorems.

The theorems on widths have hypotheses on the paragraph that no step changes, each for something the
code does (section 5): `~StartHyphens` (no hyphenation point has a hyphen *begin* the next line), since such a
hyphen is left out where clusters are cut off; `Roomy` (hyphenation is off, or each cluster fits each line
and neither tabs nor such hyphens add to it), since otherwise a line may be
empty; `~PartsSpaces`, since where spaces are parted the width that is drawn and the width of a piece are
two things. Each allows every combination of widths, boundaries and hyphens within lines;
`AllTextIsOnLines` needs none of them. That widths are not negative is part of `IsParagraph`: letter spacing
that makes an advance negative is left out.

A recursive function over offsets, segments or pages (`SumOfWidths`, `ParseLocaleList`, `Seen`, `ComputeBreaks`,
`initFromRanges`, `PageTable`, `mergeRanges`) is reasoned about through the least
offset at which what is said of it would fail, which exists because the natural numbers are well-founded.

Only model-checked: liveness (`CallsReturn`, `Terminates`), which the prover does not do; `WordsMakeAParagraph`,
which checks what the theorems on lines assume;
and the functions of `text` and
`hyphenators` (`WordsTileTheRange`, `NearestCaret`, `MeasuresWhatItDraws`, `LayoutShowsItsText`,
`HyphenatesAsPatternsSay`), which are folds over data: what a fold computes for every input
needs induction over an operator, which the prover cannot instantiate. Where such functions were proved about
(below the fonts and in the line breakers), each took the argument on the least
failing offset, function by function.

## 5. Where the code and its comments part

Each has a run that shows it:

* **`locale_lists_refs`** (`L/LocaleListCache.cpp:138`). `getById` returns a reference
  into the vector after unlocking; the header asks callers for a lock that none
  takes. A registration by another thread moves the lists under the reader.
* **`hyphenators_rules`** (`L/HyphenatorMap.cpp:111`). The header says that a hyphenator for
  the script is tried when there is none for the language. Lookups store what they found, soft hyphens only if
  nothing was found, and later searches find that: once `xx` was looked up, `xx-Ethi` answers soft hyphens
  only, by rule 5, although a hyphenator is registered for `und-Ethi`. Without the first lookup it is found. `RulesAreFollowed` proves that this is the only way.
* **`optimal_widths`** (`L/OptimalLineBreaker.cpp:352`). Where the next line has another
  width than the one before, `leftEdge` is computed again with the old one. A line wider than its limit
  is scored as one that fits, against the comment that desperate breaks are preferred to an overfull line.
* **`carets`** (`L/Measurement.cpp:106`). `getOffsetForAdvance` passes
  `count - searchStart` as the length of the rest of the run, which ends at
  `start + count`. In a run that does not start the buffer, the caret between
  the letters of a ligature is not the nearest.

Seen while modelling, described here and excluded where a property says so:

* `I/LayoutCache.h:163`: two threads lay out the same text; the second `put` is
  refused, the result is ignored and the released layout is never deleted. The comment at
  155-156 does not care about doing a layout twice. `LossNeedsRace` proves that this is the only way.
* `L/GreedyLineBreaker.cpp:304`: after hyphenation gave up and broke at the end of the range, the
  same offset is remembered; if the next word does not fit either, an empty line is reported.
  `:281`: a hyphen that starts the line counts in its width but not where clusters are cut off.
  `:232`: with opening punctuation before a hyphenated word the loop goes on before the
  word, and an unsigned difference wraps around (`ReadOutside`). After falling back to an earlier
  word a URL boundary that was scanned is forgotten, so the URL may be divided on the next line.
* `OptimalLineBreaker`: a line may hold only a hyphen where a desperate and a
  hyphenation candidate share an offset. Desperate breaks inside the spaces behind a word give
  candidates that do not grow, as 184-185 assumes. When an overfull line cannot be avoided, the range
  of active candidates may hide a better one. So it may in justified text (387): a line that has to shrink ends
  the search for lines from its start or an earlier one, though with one more word it has one more space
  to shrink. `OptimalIsBest`
  leaves such ways to break out (`FitsButForTheLast`). `SCORE_DESPERATE`, added to a `float`, absorbs
  differences below 512. The word behind a change of locale is never hyphenated, because
  `updateLocaleIfNecessary` precedes `feedChar` and the word's start is stale;
  `MeasuredText.cpp:139` skips runs that cannot be broken before their locale is looked at, so words behind
  one get no hyphenation until a run has another locale than the last run that was not skipped: where the text around a
  replacement has one locale, no word behind it is hyphenated, whatever the locale of the replacement. Where the word breaker was in an address or URL, or behind one, as such
  a run began, they get none at all: it does not begin again (`WordBreaker.cpp:84-90`), and the boundary
  that is waited for has passed. `HyphensAreOffered` leaves all of these out (`IsFollowed`, `RestartsBehind`).
* `WordBreaker`: a URL may be broken behind `:`, `=`, `&` or `//` also where a combining mark follows
  (`:234-240`), which divides the cluster; the comment at 216-218 considers marks at the end part of the URL.
  A URL ends where ICU stops, also behind a soft hyphen, where `isValidBreak` would not. A change of locale scans
  again from the run's start, and may find an address of which the first part was taken for words.
* `GreedyLineBreaker.cpp:257`: spaces before closing punctuation, behind which ICU does not break,
  count in the width of a line that is broken inside the word.
* `HyphenatorMap`: a hyphenator added after a lookup is not found by the documented rules when the
  earlier result is stored for the locale. `FollowsRules` speaks of the time until then.
* `Hyphenator`: a reused result vector is resized but not cleared (`I/Hyphenator.h:188-191`,
  `L/Hyphenator.cpp:388`). `mk_hyb_file.py:258` joins numbers without a separator, so that two
  results may share a key; the verification at the end refuses such a file. `:464` masks
  a shift with 0x1f that the reader masks with 0x3f. Two lines with the same letters: the later one wins.
* `FontCollection.cpp:261`: a character beyond the last page is given to the first family,
  also where a variation sequence or a decomposition would find one. `Locale.h:130-132` says scores
  are 0 to 2; the code answers 0 to 4, which still fits the packing. `getString` drops the emoji
  style. Segments of format 4 that are out of order cover less than they map.
* `LayoutPieces`: parts of a hyphenated word are kept under offsets that count from the word
  (`L/LineBreakerUtil.h:88`, `L/MeasuredText.cpp:118`). A line broken inside the first word, without
  a hyphen, may show a part of another word of the same paint. `LayoutShowsItsText` asks for lines
  that end at words or hyphens. A hint with other runs gives other widths; nothing checks it.
* `LayoutCore.cpp:411-412` looks up a character at an index of the piece in the whole context;
  `:318`: a piece of one unit that is replaced by a hyphen and begins with another has its cluster
  outside of the piece (`OneUnitTwoHyphens` in `MeasuresWhatItDraws`). `Layout.cpp:55` gives the edits of a
  line's ends to every run of a line in two directions. `buildLayout` adds word spacing only to a range that
  is one space, and takes it from the paint measured.

## 6. Not modelled

`ubrk_open` returning null (a TODO in the source; what ICU does then is not in the
repository). `HyphenatorMap::clear` and `LayoutCache::dumpStats`. A function `f` that itself
uses the cache (no caller does; it would deadlock). Keys that do not equal
themselves, such as a text size of NaN. `GreedyLineBreaker::getResult`, which
copies. Explicit tab stops. The text's bounds as rectangles and
font features. Floating point: scores and widths are integers. The bytes of font
and pattern files beyond what a table says of itself. Shaping and the tables of Unicode properties,
which are library calls and data. `SystemFonts` (two assignments and a lookup before there
are threads), `Emoji`'s tables, `HyphTool`, `MinikinFont`'s interface. Tests, build files and vendored code.

## 7. What is left

1. The line breakers on a text of `MeasuredText`, so that the widths of pieces, hyphens and
   kept layouts are those of the lines drawn.
2. Proofs: the word tiles of `LayoutSplitter`, the order of the optimal breaker's candidates (that they grow is a hypothesis of
   `OptimalIsBest`, as it is of the code).
