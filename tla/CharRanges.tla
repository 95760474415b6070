----------------------------- MODULE CharRanges -----------------------------
(***************************************************************************)
(* Sets of code points as sorted ranges, the CharClass of src/             *)
(* ruby-prototype's char_class.rb: what is added is merged with the ranges *)
(* it touches, which two binary searches delimit.                          *)
(***************************************************************************)
EXTENDS Integers, Sequences, SequencesExt

UNICODE_MAX == 1114111
ASCII_MAX == 127

Interval(first, last) == [first |-> first, last |-> last]

(* The first range, counted from 0, that does not end before value, and the  *)
(* first that begins after it.                                               *)
LowerBoundByEnd(ranges, value) ==
  LET search[left, right \in 0 .. Len(ranges)] ==
        IF left >= right THEN left
        ELSE LET mid == (left + right) \div 2
             IN  IF ranges[mid + 1].last < value THEN search[mid + 1, right] ELSE search[left, mid]
  IN  search[0, Len(ranges)]
UpperBoundByBegin(ranges, value) ==
  LET search[left, right \in 0 .. Len(ranges)] ==
        IF left >= right THEN left
        ELSE LET mid == (left + right) \div 2
             IN  IF ranges[mid + 1].first <= value THEN search[mid + 1, right] ELSE search[left, mid]
  IN  search[0, Len(ranges)]

Includes(ranges, code) ==
  LET search[left, right \in -1 .. Len(ranges)] ==
        left <= right /\ LET mid == (left + right) \div 2
                             range == ranges[mid + 1]
                         IN  \/ code \in range.first .. range.last
                             \/ code < range.first /\ search[left, mid - 1]
                             \/ code > range.last /\ search[mid + 1, right]
  IN  search[0, Len(ranges) - 1]

Smaller(x, y) == IF x < y THEN x ELSE y
Larger(x, y) == IF x > y THEN x ELSE y

(* The ranges from the left-th to the one before the right-th, as one.       *)
Merge(ranges, first, last, left, right) ==
  LET merged == IF left < right
                  THEN Interval(Smaller(first, ranges[left + 1].first), Larger(last, ranges[right].last))
                  ELSE Interval(first, last)
  IN  SubSeq(ranges, 1, left) \o <<merged>> \o SubSeq(ranges, right + 1, Len(ranges))

(* Variant: a range that begins where another has just ended stays apart.    *)
AddApart(ranges, first, last) ==
  Merge(ranges, first, last, LowerBoundByEnd(ranges, first), UpperBoundByBegin(ranges, last))

Add(ranges, first, last) ==
  Merge(ranges, first, last,
        LowerBoundByEnd(ranges, IF first = 0 THEN 0 ELSE first - 1),
        UpperBoundByBegin(ranges, IF last = UNICODE_MAX THEN last ELSE last + 1))

AddRange(ranges, range) == Add(ranges, range.first, range.last)
CharClass(ranges) == FoldLeft(AddRange, <<>>, ranges)
Union(ranges, others) == FoldLeft(AddRange, ranges, others)

(* For every range those of the others that overlap it, cut to it.           *)
Intersect(ranges, others) ==
  LET Overlaps(range) ==
        LET from == LowerBoundByEnd(others, range.first)
            begun(other) == other.first <= range.last
            cut(other) == Interval(Larger(range.first, other.first), Smaller(range.last, other.last))
            met == SelectSeq(SubSeq(others, from + 1, Len(others)), begun)
        IN  [i \in DOMAIN met |-> cut(met[i])]
      AddOverlaps(result, range) == FoldLeft(AddRange, result, Overlaps(range))
  IN  FoldLeft(AddOverlaps, <<>>, ranges)

(* The gaps; cursor is the first code that no range so far has reached.      *)
AddGap(gaps, range) ==
  [ranges |-> IF gaps.cursor < range.first THEN Add(gaps.ranges, gaps.cursor, range.first - 1)
              ELSE gaps.ranges,
   cursor |-> range.last + 1]
AddLastGap(gaps) ==
  IF gaps.cursor <= UNICODE_MAX THEN Add(gaps.ranges, gaps.cursor, UNICODE_MAX) ELSE gaps.ranges
Negate(ranges) == AddLastGap(FoldLeft(AddGap, [ranges |-> <<>>, cursor |-> 0], ranges))
=============================================================================
