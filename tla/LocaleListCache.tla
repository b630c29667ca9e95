--------------------------- MODULE LocaleListCache ---------------------------
(***************************************************************************)
(* LocaleListCache of libs/minikin/LocaleListCache.{h,cpp}: every string   *)
(* of comma separated language tags that a paint uses is registered once   *)
(* and designated by a small number ever after.  The lists are kept in a   *)
(* std::vector behind a mutex; getById returns a reference into it that    *)
(* outlives the critical section.                                          *)
(***************************************************************************)
EXTENDS Naturals, FiniteSets, Sequences

CONSTANTS Thread,
          Tag,                \* the language tags
          Name,               \* the strings: sequences of tags
          EmptyName,          \* ""
          Identifier,         \* Locale::getIdentifier() of a tag once ICU has maximised it
          Unsupported,        \* a tag whose Locale isUnsupported()
          FONT_LOCALE_LIMIT,
          MaxRefs             \* bound: references a thread holds at once

(* ICU (external) maps every tag to the identifier of a locale. *)
CONSTANT IdentifierOf(_)

kEmptyListId == 0

VARIABLES mLocaleLists,              \* the vector, element 0 being the empty list
          mLocaleListLookupTable,    \* string -> id, for the strings registered
          capacity, buffer,          \* the vector's capacity, and which buffer it is in
          issued,                    \* ghost: <<string, id>> for every answer of getId
          refs                       \* the references each thread holds: [id, buffer]

vars == <<mLocaleLists, mLocaleListLookupTable, capacity, buffer, issued, refs>>

-----------------------------------------------------------------------------
(* A variant with a mistake: repeated locales are kept. *)
AcceptAll(list, tag) ==
  IF IdentifierOf(tag) = Unsupported \/ Len(list) >= FONT_LOCALE_LIMIT THEN list
  ELSE Append(list, IdentifierOf(tag))

(* One round of the loop of parseLocaleList: unsupported and repeated      *)
(* locales are skipped, and nothing more is read once the list is full.    *)
Accept(list, tag) ==
  IF \/ IdentifierOf(tag) = Unsupported
     \/ \E i \in DOMAIN list : list[i] = IdentifierOf(tag)
     \/ Len(list) >= FONT_LOCALE_LIMIT
  THEN list ELSE Append(list, IdentifierOf(tag))

ParseLocaleList(name) ==
  LET parsed[i \in 0..Len(name)] == IF i = 0 THEN << >> ELSE Accept(parsed[i - 1], name[i])
  IN parsed[Len(name)]

ASSUME LocaleAssumption ==
  /\ Name \subseteq Seq(Tag)
  /\ \A tag \in Tag : IdentifierOf(tag) \in Identifier \cup {Unsupported}
  /\ EmptyName \in Name /\ ParseLocaleList(EmptyName) = << >>
  /\ Unsupported \notin Identifier
  /\ FONT_LOCALE_LIMIT \in Nat /\ MaxRefs \in Nat

(* The list that id designates; vector indices start at 0. *)
ListAt(id) == mLocaleLists[id + 1]

Init ==
  /\ mLocaleLists = << << >> >>
  /\ mLocaleListLookupTable = [n \in {EmptyName} |-> kEmptyListId]
  /\ capacity = 1 /\ buffer = 0
  /\ issued = {}
  /\ refs = [t \in Thread |-> {}]

Known(name) == name \in DOMAIN mLocaleListLookupTable

AnswerOf(name, id) == issued' = issued \cup {<<name, id>>}

(* push_back: a full vector moves to a new buffer of twice the capacity    *)
(* and frees the old one.                                                  *)
PushBack(list) ==
  /\ mLocaleLists' = Append(mLocaleLists, list)
  /\ IF Len(mLocaleLists) = capacity THEN capacity' = 2 * capacity /\ buffer' = buffer + 1
     ELSE UNCHANGED <<capacity, buffer>>

(* getIdInternal, all of it under the mutex.  A string with no supported   *)
(* locale is not registered.                                               *)
GetIdKnown(name) ==
  /\ Known(name)
  /\ AnswerOf(name, mLocaleListLookupTable[name])
  /\ UNCHANGED <<mLocaleLists, mLocaleListLookupTable, capacity, buffer>>

GetIdUnparsed(name) ==
  /\ ~Known(name) /\ ParseLocaleList(name) = << >>
  /\ AnswerOf(name, kEmptyListId)
  /\ UNCHANGED <<mLocaleLists, mLocaleListLookupTable, capacity, buffer>>

(* A variant with a mistake: the string is not entered in the table.       *)
GetIdUnlisted(name) ==
  LET nextId == Len(mLocaleLists) IN
  /\ ~Known(name) /\ ParseLocaleList(name) # << >>
  /\ PushBack(ParseLocaleList(name))
  /\ UNCHANGED mLocaleListLookupTable
  /\ AnswerOf(name, nextId)

GetIdNew(name) ==
  LET nextId == Len(mLocaleLists) IN
  /\ ~Known(name) /\ ParseLocaleList(name) # << >>
  /\ PushBack(ParseLocaleList(name))
  /\ mLocaleListLookupTable' =
       [n \in DOMAIN mLocaleListLookupTable \cup {name} |->
          IF n = name THEN nextId ELSE mLocaleListLookupTable[n]]
  /\ AnswerOf(name, nextId)

(* registerLocaleList; the callers hold no reference when they call it. *)
GetId(t, name) ==
  /\ refs[t] = {}
  /\ GetIdKnown(name) \/ GetIdUnparsed(name) \/ GetIdNew(name)
  /\ UNCHANGED refs

(* The ids a paint or a font family can carry. *)
KnownIds == {kEmptyListId} \cup {a[2] : a \in issued}

(* getByIdInternal: the mutex is released on return, the reference stays.  *)
(* calcLocaleMatchingScore holds two at a time, the other callers one.     *)
GetById(t, id) ==
  /\ Cardinality(refs[t]) < MaxRefs
  /\ refs' = [refs EXCEPT ![t] = @ \cup {[id |-> id, buffer |-> buffer]}]
  /\ UNCHANGED <<mLocaleLists, mLocaleListLookupTable, capacity, buffer, issued>>

(* The caller is done with the lists. *)
Release(t) ==
  /\ refs[t] # {}
  /\ refs' = [refs EXCEPT ![t] = {}]
  /\ UNCHANGED <<mLocaleLists, mLocaleListLookupTable, capacity, buffer, issued>>

Next == \E t \in Thread :
  \/ \E name \in Name : GetId(t, name)
  \/ \E id \in KnownIds : GetById(t, id)
  \/ Release(t)

Spec == Init /\ [][Next]_vars

-----------------------------------------------------------------------------
TypeOK ==
  /\ mLocaleLists \in Seq(Seq(Identifier)) /\ Len(mLocaleLists) >= 1
  /\ DOMAIN mLocaleListLookupTable \in SUBSET Name
  /\ \A n \in DOMAIN mLocaleListLookupTable : mLocaleListLookupTable[n] \in 0..Len(mLocaleLists) - 1
  /\ capacity \in Nat /\ capacity >= Len(mLocaleLists)
  /\ buffer \in Nat
  /\ issued \in SUBSET (Name \X Nat)
  /\ refs \in [Thread -> SUBSET [id : Nat, buffer : Nat]]

(* Every id ever answered for a string designates the list of that string, *)
(* also after the vector has grown, and ids in layout cache keys stay      *)
(* comparable: no string is ever answered two ids.                         *)
IdsKeepTheirMeaning ==
  /\ \A a \in issued : a[2] < Len(mLocaleLists) /\ ListAt(a[2]) = ParseLocaleList(a[1])
  /\ \A a, b \in issued : a[1] = b[1] => a[2] = b[2]

(* Only id 0 is empty, so that a caller may take element 0 of any other    *)
(* list, and no list repeats a locale or exceeds the limit that keeps the  *)
(* locale score of FontCollection within its bits.                         *)
ListsAreClean ==
  /\ ListAt(kEmptyListId) = << >>
  /\ \A i \in 2..Len(mLocaleLists) :
       /\ Len(mLocaleLists[i]) \in 1..FONT_LOCALE_LIMIT
       /\ \A j, k \in 1..Len(mLocaleLists[i]) :
            mLocaleLists[i][j] = mLocaleLists[i][k] => j = k

(* A list never changes once it is registered. *)
ListsAreImmutable ==
  [][\A i \in DOMAIN mLocaleLists :
       i \in DOMAIN mLocaleLists' /\ mLocaleLists'[i] = mLocaleLists[i]]_vars

(* The reference a caller reads through points into the vector's present   *)
(* buffer.  It is what a lock held by the caller around getById and the    *)
(* use of its result would ensure.                                         *)
RefsStayValid == \A t \in Thread : \A r \in refs[t] : r.buffer = buffer

=============================================================================
