----------------------------- MODULE WordBreaker -----------------------------
(***************************************************************************)
(* WordBreaker (libs/minikin/WordBreaker.cpp): the boundaries of ICU's     *)
(* line break iterator, without those minikin does not want, and its own   *)
(* ones inside email addresses and URLs.                                   *)
(*                                                                         *)
(* A text t has its units, t.unit, where a surrogate pair is one unit, and *)
(* what ICU answers for it: t.breaks[locale], the offsets behind 0 where   *)
(* the iterator of the locale stops.  A word breaker is a record of the    *)
(* members that change; LineBreakerPool has how it gets its iterator.      *)
(***************************************************************************)
EXTENDS Integers, Sequences
LOCAL S == INSTANCE SequencesExt

CONSTANTS Ascii,                \* '!' to '~', without the space
          Hyphens,              \* Hyphenator::isLineBreakingHyphen
          SoftHyphen, Virama, Zwj, EmojiStyle,
          Emoji, EmojiModifiers, EmojiBases,
          Opening,              \* line break classes OP and QU
          Stripped              \* categories Zs, P and Cc

UBRK_DONE == -1
NoLocale == "none"

Unit(t, i) == t.unit[i + 1]
TextSize(t) == Len(t.unit)
First(s) == CHOOSE x \in s : \A y \in s : x <= y
Last(s) == CHOOSE x \in s : \A y \in s : y <= x

SetText == [locale |-> NoLocale, mLast |-> 0, mCurrent |-> 0, mScanOffset |-> 0, mInEmailOrUrl |-> FALSE]

-----------------------------------------------------------------------------
(* ICU: ubrk_following and ubrk_isBoundary of the iterator of a locale.    *)
UbrkFollowing(t, locale, i) ==
  LET later == {b \in t.breaks[locale] : b > i} IN IF later = {} THEN UBRK_DONE ELSE First(later)
UbrkIsBoundary(t, locale, i) == i = 0 \/ i \in t.breaks[locale]

(* isValidBreak: hyphens, which the hyphenator handles, Myanmar's virama,  *)
(* sequences of emoji with joiners, and emoji with a modifier are kept     *)
(* together.                                                               *)
JoinsEmoji(t, i) == Unit(t, i - 1) = Zwj /\ Unit(t, i) \in Emoji
ModifiesEmoji(t, i) ==
  LET base == IF Unit(t, i - 1) = EmojiStyle /\ i > 1 THEN Unit(t, i - 2) ELSE Unit(t, i - 1)
  IN Unit(t, i) \in EmojiModifiers /\ base \in EmojiBases
IsValidBreak(t, i) ==
  \/ i = TextSize(t)
  \/ /\ Unit(t, i - 1) \notin Hyphens \cup {SoftHyphen, Virama}
     /\ ~JoinsEmoji(t, i) /\ ~ModifiesEmoji(t, i)

IteratorNext(t, w) ==
  LET later == {b \in t.breaks[w.locale] : b > w.mCurrent /\ IsValidBreak(t, b)}
  IN IF later = {} THEN UBRK_DONE ELSE First(later)

-----------------------------------------------------------------------------
(* detectEmailOrUrl scans to the end of the ASCII characters: an '@', or   *)
(* "://", makes them an address or a URL.                                  *)
Scanned(state, c) ==
  CASE state = "START" /\ c = "@" -> "SAW_AT"
    [] state = "START" /\ c = ":" -> "SAW_COLON"
    [] state = "SAW_COLON" -> IF c = "/" THEN "SAW_COLON_SLASH" ELSE "START"
    [] state = "SAW_COLON_SLASH" -> IF c = "/" THEN "SAW_COLON_SLASH_SLASH" ELSE "START"
    [] OTHER -> state
AsciiEnd(t, from) == First({i \in from..TextSize(t) - 1 : Unit(t, i) \notin Ascii} \cup {TextSize(t)})
IsEmailOrUrl(t, from, to) ==
  S!FoldLeft(Scanned, "START", SubSeq(t.unit, from + 1, to)) \in {"SAW_AT", "SAW_COLON_SLASH_SLASH"}

(* A variant with a mistake: what is attached to the end is not part of it. *)
DetectEmailOrUrlOnly(t, w) ==
  LET end == AsciiEnd(t, w.mLast)
  IN IF w.mLast < w.mScanOffset THEN w
     ELSE [w EXCEPT !.mInEmailOrUrl = IsEmailOrUrl(t, w.mLast, end), !.mScanOffset = end]

DetectEmailOrUrl(t, w) ==
  LET end == AsciiEnd(t, w.mLast)
      found == IsEmailOrUrl(t, w.mLast, end)
      boundary == IF UbrkIsBoundary(t, w.locale, end) THEN end ELSE UbrkFollowing(t, w.locale, end)
  IN IF w.mLast < w.mScanOffset THEN w
     ELSE [w EXCEPT !.mInEmailOrUrl = found, !.mScanOffset = IF found THEN boundary ELSE end]

(* findNextBreakInEmailOrUrl: the rules of the Chicago Manual of Style.    *)
BreakAfter == {":", "=", "&"}
BreakBefore == {"~", ".", ",", "-", "_", "?", "#", "%", "=", "&"}
BeforeSingleSlash(t, w, i) ==
  /\ Unit(t, i) = "/" /\ Unit(t, i - 1) # "/"
  /\ ~(i + 1 < w.mScanOffset /\ Unit(t, i + 1) = "/")
AfterDoubleSlash(t, w, i) == i >= w.mLast + 2 /\ Unit(t, i - 1) = "/" /\ Unit(t, i - 2) = "/"
IsUrlBreak(t, w, i) ==
  \/ Unit(t, i - 1) \in BreakAfter
  \/ AfterDoubleSlash(t, w, i)
  \/ Unit(t, i - 1) # "-" /\ (Unit(t, i) \in BreakBefore \/ BeforeSingleSlash(t, w, i))
FindNextBreakInEmailOrUrl(t, w) ==
  First({i \in w.mLast + 1..w.mScanOffset - 1 : IsUrlBreak(t, w, i)} \cup {w.mScanOffset})

NextBreak(t, w) ==
  LET detected == DetectEmailOrUrl(t, [w EXCEPT !.mLast = w.mCurrent])
  IN [detected EXCEPT !.mCurrent = IF detected.mInEmailOrUrl THEN FindNextBreakInEmailOrUrl(t, detected)
                                   ELSE IteratorNext(t, detected)]

(* Within an address or URL only the iterator changes. *)
FollowingWithLocale(t, w, locale, from) ==
  IF w.mInEmailOrUrl THEN [w EXCEPT !.locale = locale]
  ELSE NextBreak(t, [w EXCEPT !.locale = locale, !.mCurrent = from, !.mLast = from, !.mScanOffset = from])

-----------------------------------------------------------------------------
(* wordStart, wordEnd and wordRange: the word without opening and quoting  *)
(* marks before it, and spaces and punctuation behind it; no word inside   *)
(* an address or URL.                                                      *)
WordStart(t, w) ==
  IF w.mInEmailOrUrl THEN w.mLast
  ELSE First({i \in w.mLast..w.mCurrent - 1 : Unit(t, i) \notin Opening} \cup {w.mCurrent})
WordEnd(t, w) ==
  IF w.mInEmailOrUrl THEN w.mLast
  ELSE Last({i + 1 : i \in {j \in w.mLast..w.mCurrent - 1 : Unit(t, j) \notin Stripped}} \cup {w.mLast})
WordRange(t, w) ==
  IF WordStart(t, w) < WordEnd(t, w) THEN [start |-> WordStart(t, w), end |-> WordEnd(t, w)]
  ELSE [start |-> WordEnd(t, w), end |-> WordEnd(t, w)]

BreakBadness(w) == w.mInEmailOrUrl /\ w.mCurrent < w.mScanOffset
=============================================================================
