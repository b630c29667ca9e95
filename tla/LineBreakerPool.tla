--------------------------- MODULE LineBreakerPool ---------------------------
(***************************************************************************)
(* ICULineBreakerPoolImpl of libs/minikin/WordBreaker.{h,cpp} and the      *)
(* WordBreakers of the threads that break lines at the same time.  Opening *)
(* an ICU line breaker is slow, so a WordBreaker takes one from the pool   *)
(* and gives it back; a breaker that came from the pool still points at    *)
(* the text of whoever used it last, which may be freed by then.           *)
(***************************************************************************)
EXTENDS Naturals, Sequences
S == INSTANCE SequencesExt

CONSTANTS WordBreaker,      \* the WordBreaker objects, one per line breaking run
          LocaleId,         \* Locale::getIdentifier()
          Breaker,          \* addresses for UBreakIterator objects
          Text,             \* text buffers
          NoLocale, NoBreaker, NoText,
          MAX_POOL_SIZE

ASSUME PoolAssumption ==
  /\ NoLocale \notin LocaleId /\ NoBreaker \notin Breaker /\ NoText \notin Text
  /\ MAX_POOL_SIZE \in Nat

VARIABLES mPool,        \* the pooled slots, latest release first
          mIcuBreaker,  \* the slot of each WordBreaker
          acquired,     \* the slot acquire returned, not yet moved to mIcuBreaker
          mText,        \* the text of each WordBreaker
          locale,       \* the locale it was last told to follow
          pc,           \* where its user is
          opened,       \* the locale each breaker was opened for, NoLocale when closed
          reads         \* the text each breaker points at

vars == <<mPool, mIcuBreaker, acquired, mText, locale, pc, opened, reads>>

Slot(l, b) == [localeId |-> l, breaker |-> b]
EmptySlot == Slot(NoLocale, NoBreaker)
Label == {"constructed", "hasText", "acquired", "breaking"}

Init ==
  /\ mPool = << >>
  /\ mIcuBreaker = [w \in WordBreaker |-> EmptySlot]
  /\ acquired = [w \in WordBreaker |-> EmptySlot]
  /\ mText = [w \in WordBreaker |-> NoText]
  /\ locale = [w \in WordBreaker |-> NoLocale]
  /\ pc = [w \in WordBreaker |-> "constructed"]
  /\ opened = [b \in Breaker |-> NoLocale]
  /\ reads = [b \in Breaker |-> NoText]

-----------------------------------------------------------------------------
Goto(w, label) == pc' = [pc EXCEPT ![w] = label]

(* The caller's buffer: no other WordBreaker works on it. *)
SetText(w, text) ==
  /\ pc[w] = "constructed"
  /\ \A u \in WordBreaker : mText[u] # text
  /\ mText' = [mText EXCEPT ![w] = text]
  /\ Goto(w, "hasText")
  /\ UNCHANGED <<mPool, mIcuBreaker, acquired, locale, opened, reads>>

(* The position in mPool of the first slot for a locale. *)
(* ... and a variant with a mistake: the front slot, whatever it is for.    *)
FirstAny(l) == {i \in DOMAIN mPool : i = 1}
FirstFor(l) == {i \in DOMAIN mPool :
                  mPool[i].localeId = l /\ \A j \in 1..i - 1 : mPool[j].localeId # l}

(* A variant with a mistake: the slot is not erased from the pool. *)
AcquirePooledKeeping(w, l) ==
  /\ \E i \in FirstFor(l) : acquired' = [acquired EXCEPT ![w] = mPool[i]]
  /\ UNCHANGED <<mPool, opened, reads>>

(* acquire, under mMutex: the slot moves out of the pool, or a new breaker *)
(* is opened.                                                              *)
AcquirePooled(w, l) ==
  /\ \E i \in FirstFor(l) :
       /\ acquired' = [acquired EXCEPT ![w] = mPool[i]]
       /\ mPool' = S!RemoveAt(mPool, i)
  /\ UNCHANGED <<opened, reads>>

AcquireNew(w, l) ==
  /\ FirstFor(l) = {}
  /\ \E b \in {x \in Breaker : opened[x] = NoLocale} :
       /\ acquired' = [acquired EXCEPT ![w] = Slot(l, b)]
       /\ opened' = [opened EXCEPT ![b] = l]
  /\ UNCHANGED <<mPool, reads>>

(* followingWithLocale, first statement, before the assignment: called for *)
(* the first run of a text and whenever the locale list changes.           *)
Acquire(w, l) ==
  /\ pc[w] \in {"hasText", "breaking"}
  /\ locale' = [locale EXCEPT ![w] = l]
  /\ AcquirePooled(w, l) \/ AcquireNew(w, l)
  /\ Goto(w, "acquired")
  /\ UNCHANGED <<mIcuBreaker, mText>>

(* Variants with a mistake: a pooled breaker is used as it is, or the       *)
(* breaker held until then is forgotten.                                   *)
AttachKeepingText(w) ==
  /\ pc[w] = "acquired"
  /\ mIcuBreaker' = [mIcuBreaker EXCEPT ![w] = acquired[w]]
  /\ acquired' = [acquired EXCEPT ![w] = EmptySlot]
  /\ opened' = [b \in Breaker |-> IF b = mIcuBreaker[w].breaker THEN NoLocale ELSE opened[b]]
  /\ reads' = [b \in Breaker |-> IF b = mIcuBreaker[w].breaker THEN NoText
                                 ELSE IF b = acquired[w].breaker /\ reads[b] = NoText THEN mText[w] ELSE reads[b]]
  /\ Goto(w, "breaking")
  /\ UNCHANGED <<mPool, mText, locale>>

AttachLeaking(w) ==
  /\ pc[w] = "acquired"
  /\ mIcuBreaker' = [mIcuBreaker EXCEPT ![w] = acquired[w]]
  /\ acquired' = [acquired EXCEPT ![w] = EmptySlot]
  /\ reads' = [reads EXCEPT ![acquired[w].breaker] = mText[w]]
  /\ Goto(w, "breaking")
  /\ UNCHANGED <<mPool, mText, locale, opened>>

(* The rest of it: the assignment closes the breaker held until then       *)
(* instead of pooling it, and ubrk_setUText points the new one at mText.   *)
Attach(w) ==
  /\ pc[w] = "acquired"
  /\ mIcuBreaker' = [mIcuBreaker EXCEPT ![w] = acquired[w]]
  /\ acquired' = [acquired EXCEPT ![w] = EmptySlot]
  /\ opened' = [b \in Breaker |-> IF b = mIcuBreaker[w].breaker THEN NoLocale ELSE opened[b]]
  /\ reads' = [b \in Breaker |-> IF b = mIcuBreaker[w].breaker THEN NoText
                                 ELSE IF b = acquired[w].breaker THEN mText[w] ELSE reads[b]]
  /\ Goto(w, "breaking")
  /\ UNCHANGED <<mPool, mText, locale>>

(* release, under mMutex: nothing for an empty slot; a full pool closes    *)
(* the breaker.                                                            *)
Release(slot) ==
  IF slot.breaker = NoBreaker \/ Len(mPool) >= MAX_POOL_SIZE
  THEN /\ opened' = [b \in Breaker |-> IF b = slot.breaker THEN NoLocale ELSE opened[b]]
       /\ reads' = [b \in Breaker |-> IF b = slot.breaker THEN NoText ELSE reads[b]]
       /\ UNCHANGED mPool
  ELSE /\ mPool' = <<slot>> \o mPool
       /\ UNCHANGED <<opened, reads>>

(* finish, called by the destructor too: the slot moves to release, which  *)
(* leaves it empty.  The text goes with the caller.                        *)
Finish(w) ==
  /\ pc[w] # "acquired"
  /\ Release(mIcuBreaker[w])
  /\ mIcuBreaker' = [mIcuBreaker EXCEPT ![w] = EmptySlot]
  /\ mText' = [mText EXCEPT ![w] = NoText]
  /\ locale' = [locale EXCEPT ![w] = NoLocale]
  /\ Goto(w, "constructed")
  /\ UNCHANGED acquired

Next == \E w \in WordBreaker :
  \/ \E text \in Text : SetText(w, text)
  \/ \E l \in LocaleId : Acquire(w, l)
  \/ Attach(w)
  \/ Finish(w)

Spec == Init /\ [][Next]_vars

-----------------------------------------------------------------------------
TypeOK ==
  LET FullSlot == [localeId : LocaleId, breaker : Breaker] IN
  /\ mPool \in Seq(FullSlot)
  /\ mIcuBreaker \in [WordBreaker -> FullSlot \cup {EmptySlot}]
  /\ acquired \in [WordBreaker -> FullSlot \cup {EmptySlot}]
  /\ mText \in [WordBreaker -> Text \cup {NoText}]
  /\ locale \in [WordBreaker -> LocaleId \cup {NoLocale}]
  /\ pc \in [WordBreaker -> Label]
  /\ opened \in [Breaker -> LocaleId \cup {NoLocale}]
  /\ reads \in [Breaker -> Text \cup {NoText}]

(* The places a slot can be in. *)
Place == ({"pool"} \X DOMAIN mPool) \cup ({"held", "acquired"} \X WordBreaker)
SlotIn(p) == CASE p[1] = "pool" -> mPool[p[2]]
               [] p[1] = "held" -> mIcuBreaker[p[2]]
               [] p[1] = "acquired" -> acquired[p[2]]

(* No breaker is in two places: two threads never move one iterator, and   *)
(* no breaker is closed twice or while the pool still offers it.           *)
OneHolder ==
  \A p, q \in Place :
    SlotIn(p).breaker = SlotIn(q).breaker /\ SlotIn(p).breaker # NoBreaker => p = q

(* Every breaker in some place is open for the locale its slot names, and  *)
(* text is broken by the rules of the locale asked for, not by those of a  *)
(* former holder.                                                          *)
RightLocale ==
  /\ \A p \in Place : SlotIn(p).breaker # NoBreaker =>
       opened[SlotIn(p).breaker] = SlotIn(p).localeId
  /\ \A w \in WordBreaker : pc[w] = "breaking" => mIcuBreaker[w].localeId = locale[w]

(* No breaker is leaked, however many threads release at once: an open one *)
(* is with a WordBreaker or in the pool, and what the pool keeps is bounded. *)
NoBreakerLeaks ==
  /\ \A b \in Breaker : opened[b] # NoLocale => \E p \in Place : SlotIn(p).breaker = b
  /\ Len(mPool) <= MAX_POOL_SIZE

(* While a WordBreaker steps through its text, its breaker reads that text *)
(* and not the one a former holder may have freed.                         *)
ReadsOwnText ==
  \A w \in WordBreaker : pc[w] = "breaking" =>
    mText[w] # NoText /\ reads[mIcuBreaker[w].breaker] = mText[w]

=============================================================================
