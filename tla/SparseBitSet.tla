---------------------------- MODULE SparseBitSet ----------------------------
(***************************************************************************)
(* The set of code points of a font (SparseBitSet.cpp, SparseBitSet.h).    *)
(*                                                                         *)
(* A set is built once, from a sorted list of ranges <<start, end>> (end   *)
(* exclusive), and then only read.  Its values are cut into pages; a page  *)
(* is a row of elements (machine words) in mBitmaps, mIndices gives the    *)
(* first element of every page, and all empty pages share one row.  An     *)
(* element is the set of its set bits, numbered from the highest.          *)
(*                                                                         *)
(* mIndices and mBitmaps are functions on the indices the code has         *)
(* written: a read of an element that was never allocated is an error.     *)
(***************************************************************************)
EXTENDS Integers, Sequences, FiniteSets, SequencesExt

CONSTANTS
    ValuesPerPage,      \* 1 << kLogValuesPerPage: 256 in the code
    BitsPerEl,          \* 1 << kLogBitsPerEl: 32 in the code
    kMaximumCapacity    \* 0xFFFFFF in the code

ASSUME BitSetAssumption ==
    /\ BitsPerEl \in Nat \ {0}
    /\ ValuesPerPage \in Nat \ {0}
    /\ ValuesPerPage % BitsPerEl = 0
    /\ kMaximumCapacity \in Nat

ElsPerPage == ValuesPerPage \div BitsPerEl
PageOf(ch) == ch \div ValuesPerPage

kNotFound  == -1        \* ~0u: larger than every value; tested by =
noZeroPage == -1        \* 0xFFFF

EmptySet == [mMaxVal |-> 0, mIndices |-> <<>>, mBitmaps |-> <<>>,
             mZeroPageIndex |-> noZeroPage]

-----------------------------------------------------------------------------
(***************************************************************************)
(* Building.  calcNumPages counts the rows before they are allocated; the  *)
(* loop of initFromRanges then has to use exactly those.                   *)
(***************************************************************************)
CountPages(c, r) ==
    LET startPage == PageOf(r[1])
        endPage   == PageOf(r[2] - 1)
        gap       == startPage > c.nonzeroPageEnd
    IN [nPages         |-> c.nPages + (endPage - startPage)
                           + (IF startPage >= c.nonzeroPageEnd THEN 1 ELSE 0)
                           + (IF gap /\ ~c.haveZeroPage THEN 1 ELSE 0),
        haveZeroPage   |-> c.haveZeroPage \/ gap,
        nonzeroPageEnd |-> endPage + 1]
calcNumPages(ranges) ==
    LET count[k \in 0..Len(ranges)] ==
            IF k = 0 THEN [nPages |-> 0, haveZeroPage |-> FALSE, nonzeroPageEnd |-> 0]
            ELSE CountPages(count[k - 1], ranges[k])
    IN count[Len(ranges)].nPages

\* The pages of range r get their rows: the skipped pages the shared empty
\* one, the first page one of its own unless the last range ended in it.
TakePages(s, r) ==
    LET startPage == PageOf(r[1])
        endPage   == PageOf(r[2] - 1)
        zero  == IF startPage > s.nonzeroPageEnd /\ s.mZeroPageIndex = noZeroPage
                 THEN s.currentPage * ElsPerPage ELSE s.mZeroPageIndex
        first == IF zero # s.mZeroPageIndex THEN s.currentPage + 1 ELSE s.currentPage
        begun == startPage < s.nonzeroPageEnd
        row0  == IF begun THEN first - 1 ELSE first
    IN [s EXCEPT !.mZeroPageIndex = zero,
                 !.firstRow = row0,
                 !.currentPage = row0 + (endPage - startPage) + 1,
                 !.nonzeroPageEnd = endPage + 1,
                 !.mIndices = [j \in 0..endPage |->
                     IF j >= startPage THEN (row0 + j - startPage) * ElsPerPage
                     ELSE IF j >= s.nonzeroPageEnd THEN zero ELSE @[j]]]

\* The bits of range r, element by element from its first one.
SetBits(s, r) ==
    LET start == r[1]
        end   == r[2]
        index == s.firstRow * ElsPerPage + (start % ValuesPerPage) \div BitsPerEl
        nElements == (end - (start - (start % BitsPerEl)) + BitsPerEl - 1) \div BitsPerEl
        pad == (BitsPerEl - (end % BitsPerEl)) % BitsPerEl
        Bits(j) == {b \in 0..BitsPerEl-1 :
                       /\ j = 0 => b >= start % BitsPerEl
                       /\ j = nElements - 1 => b < BitsPerEl - pad}
        row == index .. index + nElements - 1
    IN [s EXCEPT !.mBitmaps = [k \in DOMAIN @ |->
                                  IF k \in row THEN @[k] \cup Bits(k - index) ELSE @[k]]]

Blank(nPages) ==
    [mIndices |-> <<>>, mZeroPageIndex |-> noZeroPage,
     mBitmaps |-> [k \in 0 .. nPages * ElsPerPage - 1 |-> {}],
     nonzeroPageEnd |-> 0, currentPage |-> 0, firstRow |-> 0]
Finish(built, maxVal) ==
    [mMaxVal |-> maxVal, mIndices |-> built.mIndices, mBitmaps |-> built.mBitmaps,
     mZeroPageIndex |-> built.mZeroPageIndex]

initFromRanges(ranges) ==
    IF ranges = <<>> \/ Last(ranges)[2] >= kMaximumCapacity THEN EmptySet
    ELSE LET built[k \in 0..Len(ranges)] ==
                 IF k = 0 THEN Blank(calcNumPages(ranges))
                 ELSE SetBits(TakePages(built[k - 1], ranges[k]), ranges[k])
         IN Finish(built[Len(ranges)], Last(ranges)[2])

-----------------------------------------------------------------------------
(***************************************************************************)
(* Reading.                                                                *)
(***************************************************************************)
get(set, ch) ==
    /\ ch < set.mMaxVal
    /\ LET index == ch % ValuesPerPage
       IN index % BitsPerEl \in
              set.mBitmaps[set.mIndices[PageOf(ch)] + index \div BitsPerEl]

\* The first set bit among elements js (of the row of a page) from bit `from` on.
FirstBitOfElement(row, page, js) ==
    page * ValuesPerPage + Min(row[Min({i \in js : row[i] # {}})])
FirstBit(row, page, js) ==
    LET j == Min({i \in js : row[i] # {}})
    IN page * ValuesPerPage + j * BitsPerEl + Min(row[j])

nextSetBit(set, fromIndex) ==
    IF fromIndex >= set.mMaxVal THEN kNotFound
    ELSE LET fromPage == PageOf(fromIndex)
             offset == (fromIndex % ValuesPerPage) \div BitsPerEl
             Row(page) == [j \in 0..ElsPerPage-1 |-> set.mBitmaps[set.mIndices[page] + j]]
             here == [Row(fromPage) EXCEPT ![offset] =
                          {b \in @ : b >= fromIndex % BitsPerEl}]
             later == {page \in fromPage + 1 .. PageOf(set.mMaxVal + ValuesPerPage - 1) - 1 :
                          /\ set.mIndices[page] # set.mZeroPageIndex
                          /\ \E j \in 0..ElsPerPage-1 : Row(page)[j] # {}}
         IN IF \E j \in offset..ElsPerPage-1 : here[j] # {}
            THEN FirstBit(here, fromPage, offset..ElsPerPage-1)
            ELSE IF later # {} THEN FirstBit(Row(Min(later)), Min(later), 0..ElsPerPage-1)
            ELSE kNotFound

=============================================================================
