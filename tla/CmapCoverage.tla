---------------------------- MODULE CmapCoverage ----------------------------
(***************************************************************************)
(* What a font covers, read from its "cmap" table (CmapCoverage.cpp).      *)
(*                                                                         *)
(* A cmap is a sequence of subtables; the bytes are abstracted to          *)
(*   platformId, encodingId, format, language,                             *)
(*   fits     "no" (its head is not in the file), "head" (its length is    *)
(*            larger than what is left of the file), "cut" (too short for  *)
(*            what it is to hold) or "whole",                              *)
(*   segments (format 4) [start, end, delta, glyphs]; glyphs is NoTable    *)
(*            (rangeOffset 0) or the glyph ids in the file, fewer than     *)
(*            end - start + 1 when the array ends behind the file,         *)
(*   groups   (format 12) <<start, end>>, inclusive,                       *)
(*   records  (format 14) [vs, inFile, default, nonDefault]; a UVS table   *)
(*            is a sequence, NoTable (offset 0) or Cut (too short).        *)
(***************************************************************************)
EXTENDS SparseBitSet

CONSTANTS
    kMaxCodePoint,  \* MAX_UNICODE_CODE_POINT
    GlyphIds,       \* 0x10000: glyph ids are taken modulo this
    FirstVs, NumVs, \* the variation selectors are FirstVs .. FirstVs + NumVs - 1
    NoTable, Cut

\* What the code points, the deltas and the glyph ids of a table can be; the
\* code points of format 4 have 16 bits.
IsTable(t) ==
    /\ t.segments \in Seq([start : 0..kMaxCodePoint, end : 0..kMaxCodePoint, delta : Nat,
                           glyphs : {NoTable} \cup Seq(Nat)])
    /\ t.groups \in Seq(Nat \X Nat)
    /\ t.records \in Seq([vs : Nat, inFile : BOOLEAN, default : {NoTable, Cut} \cup Seq(Nat \X Nat),
                          nonDefault : {NoTable, Cut} \cup Seq(Nat)])
IsCmap(cmap) ==
    /\ Len(cmap) \in Nat /\ DOMAIN cmap = 1..Len(cmap)
    /\ \A i \in DOMAIN cmap : IsTable(cmap[i])

Failed(c) == [c EXCEPT !.ok = FALSE]
NoRanges == [ok |-> TRUE, ranges |-> <<>>]
AddTo(c, r)   == [c EXCEPT !.ranges = Append(@, r)]
ExtendTo(c, end) == [c EXCEPT !.ranges[Len(c.ranges)][2] = end]

\* coverage is a vector of ranges in order; adding one that is not in order fails.
addRange(c, start, end) ==
    IF c.ranges = <<>> \/ Last(c.ranges)[2] < start THEN AddTo(c, <<start, end>>)
    ELSE IF Last(c.ranges)[2] = start THEN ExtendTo(c, end)
    ELSE Failed(c)

\* Format 4 may name a code point twice: only the end has to be in order.
addRangeCmap4(c, start, end) ==
    IF c.ranges # <<>> /\ Last(c.ranges)[2] > end THEN Failed(c)
    ELSE IF c.ranges = <<>> \/ Last(c.ranges)[2] < start THEN AddTo(c, <<start, end>>)
    ELSE ExtendTo(c, end)

\* The first add that fails ends the reading of the table.  Only format 4 may
\* name a code point twice.
AddOne(twice, c, ch) ==
    IF ~c.ok THEN c
    ELSE IF twice THEN addRangeCmap4(c, ch, ch + 1) ELSE addRange(c, ch, ch + 1)

\* The members of chars from start to end, one by one.
AddSingles(twice, c, start, end, chars) ==
    LET added[k \in 0 .. end - start + 1] ==
            IF k = 0 THEN c
            ELSE IF start + k - 1 \in chars THEN AddOne(twice, added[k - 1], start + k - 1)
            ELSE added[k - 1]
    IN added[end - start + 1]

-----------------------------------------------------------------------------
(***************************************************************************)
(* Merging two sorted lists of ranges.                                     *)
(***************************************************************************)
intersects(l, r) == l[1] < r[2] /\ r[1] < l[2]
MergeToRight(l, r) == <<Min({l[1], r[1]}), r[2]>>
merge(l, r) == <<Min({l[1], r[1]}), Max({l[2], r[2]})>>

\* The merging so far: the ranges written, the range being merged and the next
\* ones of both lists.  The range takes up every next one of either list that it
\* intersects before it is written.
NoRange == <<0, 0>>
Write(m, range) == [m EXCEPT !.out = addRange(@, range[1], range[2])]
Written(m) == IF m.merged = NoRange THEN m ELSE [Write(m, m.merged) EXCEPT !.merged = NoRange]
Meets(m, list, i) == m.merged # NoRange /\ i <= Len(list) /\ intersects(m.merged, list[i])

\* Nothing is being merged: two next ranges that intersect are, or one is written.
BeginNext(l, r, m) ==
    LET left  == m.li <= Len(l)
        right == m.ri <= Len(r)
        both  == left /\ right /\ intersects(l[m.li], r[m.ri])
    IN CASE both -> [m EXCEPT !.merged = merge(l[m.li], r[m.ri]), !.li = @ + 1, !.ri = @ + 1]
         [] ~both /\ left /\ (right => l[m.li][1] < r[m.ri][1]) ->
                [Write(m, l[m.li]) EXCEPT !.li = @ + 1]
         [] ~both /\ right /\ (left => r[m.ri][1] <= l[m.li][1]) ->
                [Write(m, r[m.ri]) EXCEPT !.ri = @ + 1]
         [] ~left /\ ~right -> m
MergeStep(l, r, m) ==
    IF Meets(m, l, m.li) THEN [m EXCEPT !.merged = merge(@, l[m.li]), !.li = @ + 1]
    ELSE IF Meets(m, r, m.ri) THEN [m EXCEPT !.merged = merge(@, r[m.ri]), !.ri = @ + 1]
    ELSE BeginNext(l, r, Written(m))

\* Every step takes a range, but the one behind the last that writes.
NotMerged == [out |-> NoRanges, merged |-> NoRange, li |-> 1, ri |-> 1]
mergeRanges(l, r) ==
    LET m[k \in 0 .. Len(l) + Len(r) + 1] ==
            IF k = 0 THEN NotMerged ELSE MergeStep(l, r, m[k - 1])
    IN m[Len(l) + Len(r) + 1].out.ranges

-----------------------------------------------------------------------------
(***************************************************************************)
(* The subtables.                                                          *)
(***************************************************************************)
\* A segment without a glyph array is taken as a whole unless its glyph ids
\* wrap to 0 (no glyph) inside it.
HasGlyphId(s, j) ==
    IF s.glyphs = NoTable THEN (j + s.delta) % GlyphIds # 0
    ELSE j - s.start + 1 <= Len(s.glyphs) /\ s.glyphs[j - s.start + 1] # 0
AddSingly(c, s) ==
    AddSingles(TRUE, c, s.start, s.end, {j \in s.start .. s.end : HasGlyphId(s, j)})
AddSegmentLate(c, s) ==
    IF s.glyphs = NoTable /\ (s.end + s.delta) % GlyphIds >= s.end - s.start
    THEN addRangeCmap4(c, s.start, s.end + 1) ELSE AddSingly(c, s)
AddSegment(c, s) ==
    IF s.glyphs = NoTable /\ (s.end + s.delta) % GlyphIds > s.end - s.start
    THEN addRangeCmap4(c, s.start, s.end + 1) ELSE AddSingly(c, s)

ReadSegment(c, s) ==
    IF ~c.ok THEN c ELSE IF s.end < s.start THEN Failed(c) ELSE AddSegment(c, s)
getCoverageFormat4(table) ==
    LET found[k \in 0..Len(table.segments)] ==
            IF k = 0 THEN NoRanges ELSE ReadSegment(found[k - 1], table.segments[k])
    IN IF table.fits = "cut" THEN Failed(NoRanges) ELSE found[Len(table.segments)]

\* A group behind the last code point ends the reading.
ReadGroup(c, g) ==
    IF ~c.ok \/ c.done THEN c
    ELSE IF g[2] < g[1] THEN Failed(c)
    ELSE IF g[1] > kMaxCodePoint THEN [c EXCEPT !.done = TRUE]
    ELSE [addRange(c, g[1], (IF g[2] > kMaxCodePoint THEN kMaxCodePoint ELSE g[2]) + 1)
              EXCEPT !.done = g[2] > kMaxCodePoint]
NoGroups == [ok |-> TRUE, ranges |-> <<>>, done |-> FALSE]
getCoverageFormat12(table) ==
    LET found[k \in 0..Len(table.groups)] ==
            IF k = 0 THEN NoGroups ELSE ReadGroup(found[k - 1], table.groups[k])
    IN IF table.fits = "cut" THEN Failed(NoGroups) ELSE found[Len(table.groups)]

isVariationSelector(ch) == ch \in FirstVs .. FirstVs + NumVs - 1
getVsIndex(ch) == ch - FirstVs

\* The code points with a glyph of their own for a selector.
NonDefaultCoverage(codes) ==
    LET found[k \in 0..Len(codes)] ==
            IF k = 0 THEN NoRanges ELSE AddOne(FALSE, found[k - 1], codes[k])
    IN IF codes = NoTable THEN NoRanges ELSE IF codes = Cut THEN Failed(NoRanges)
       ELSE found[Len(codes)]

\* The ones whose own glyph stays the same, where they have one.
AddInBase(c, start, length, baseCoverage) ==
    AddSingles(FALSE, c, start, start + length,
               {cp \in start .. start + length : get(baseCoverage, cp)})
DefaultCoverage(parts, baseCoverage) ==
    LET found[k \in 0..Len(parts)] ==
            IF k = 0 THEN NoRanges
            ELSE AddInBase(found[k - 1], parts[k][1], parts[k][2], baseCoverage)
    IN IF parts = NoTable THEN NoRanges ELSE IF parts = Cut THEN Failed(NoRanges)
       ELSE found[Len(parts)]

Both(default, nonDefault) ==
    IF nonDefault.ok /\ default.ok
    THEN [ok |-> TRUE, ranges |-> mergeRanges(default.ranges, nonDefault.ranges)]
    ELSE Failed(NoRanges)
getVSCoverage(record, baseCoverage) ==
    Both(DefaultCoverage(record.default, baseCoverage), NonDefaultCoverage(record.nonDefault))

\* The bit set of every selector, by its index; the records are read from the
\* last to the first, so the first of two with one selector stays.
AddVS(out, vs, c) ==
    IF ~c.ok THEN out
    ELSE [i \in DOMAIN out \cup {getVsIndex(vs)} |->
              IF i = getVsIndex(vs) THEN initFromRanges(c.ranges) ELSE out[i]]
ReadRecord(out, record, baseCoverage) ==
    IF record.inFile /\ isVariationSelector(record.vs)
    THEN AddVS(out, record.vs, getVSCoverage(record, baseCoverage)) ELSE out
getCoverageFormat14(table, baseCoverage) ==
    LET out[k \in 0..Len(table.records)] ==
            IF k = 0 THEN <<>>
            ELSE ReadRecord(out[k - 1], table.records[Len(table.records) - k + 1], baseCoverage)
    IN IF table.fits # "whole" THEN <<>> ELSE out[Len(table.records)]

-----------------------------------------------------------------------------
(***************************************************************************)
(* Choosing the subtables.                                                 *)
(***************************************************************************)
kLowestPriority == 255
\* The platforms and encodings of the tables that are read, the best first.
Priorities == << <<3, 10>>, <<0, 6>>, <<0, 4>>, <<3, 1>>, <<0, 3>>, <<0, 2>>, <<0, 1>>, <<0, 0>> >>
getTablePriority(t) ==
    LET rank == {i \in DOMAIN Priorities : Priorities[i] = <<t.platformId, t.encodingId>>}
    IN IF rank = {} THEN kLowestPriority ELSE Min(rank) - 1

IsVsTable(t) == t.platformId = 0 /\ t.encodingId = 5
Usable(t) == t.format \in {4, 12} /\ t.fits \in {"cut", "whole"} /\ t.language = 0

\* The indices of the character table and of the variation sequences table, 0
\* for none: the first of the best priority, and the first of format 14.
SeeTable(best, i, t) ==
    IF (best.vs # 0 /\ best.priority = 0) \/ t.fits = "no" THEN best
    ELSE IF IsVsTable(t)
         THEN IF best.vs = 0 /\ t.format = 14 THEN [best EXCEPT !.vs = i] ELSE best
    ELSE IF Usable(t) /\ getTablePriority(t) < best.priority
         THEN [best EXCEPT !.table = i, !.priority = getTablePriority(t)] ELSE best
ChooseTables(cmap) ==
    LET best[i \in 0..Len(cmap)] ==
            IF i = 0 THEN [table |-> 0, priority |-> kLowestPriority, vs |-> 0]
            ELSE SeeTable(best[i - 1], i, cmap[i])
    IN best[Len(cmap)]

\* A table that cannot be read covers nothing.
ReadTable(table) ==
    IF table.format = 4 THEN getCoverageFormat4(table) ELSE getCoverageFormat12(table)
Covered(c) == IF c.ok THEN initFromRanges(c.ranges) ELSE EmptySet
WithVS(cmap, vs, coverage) ==
    [coverage |-> coverage,
     vs |-> IF vs = 0 THEN <<>> ELSE getCoverageFormat14(cmap[vs], coverage)]
ReadTables(cmap, best) ==
    WithVS(cmap, best.vs, IF best.table = 0 THEN EmptySet ELSE Covered(ReadTable(cmap[best.table])))
getCoverage(cmap) == ReadTables(cmap, ChooseTables(cmap))

=============================================================================
