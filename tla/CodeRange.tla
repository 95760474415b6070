----------------------------- MODULE CodeRange ------------------------------
(***************************************************************************)
(* code_in_code_range of src/cprop.c: the binary search that decides       *)
(* whether a code has a character property.  Its bounds are size_t.        *)
(***************************************************************************)
EXTENDS Integers, Sequences

CONSTANTS
  MaxCode,     \* bound: the largest code
  MaxRanges,   \* bound: ranges of a property
  SizeBits     \* width of size_t: 64, a small number for TLC

Size == 2 ^ SizeBits
Codes == 0 .. MaxCode

VARIABLES
  intervals,     \* the ranges, <<first, last>>, sorted and disjoint
  code,
  left, right,
  outcome        \* "searching", "true", "false", or "outside": an interval that is
                 \* not there has been read

vars == <<intervals, code, left, right, outcome>>

IsSorted(ranges) ==
  /\ \A n \in DOMAIN ranges : ranges[n][1] <= ranges[n][2]
  /\ \A n \in 1 .. Len(ranges) - 1 : ranges[n][2] < ranges[n + 1][1]

Init ==
  /\ \E n \in 1 .. MaxRanges : intervals \in [1 .. n -> Codes \X Codes]
  /\ IsSorted(intervals)
  /\ code \in Codes
  /\ left = 0 /\ right = Len(intervals) - 1
  /\ outcome = "searching"

mid == left + (right - left) \div 2

Compare ==
  /\ outcome = "searching" /\ left <= right /\ mid < Len(intervals)
  /\ LET range == intervals[mid + 1]
     IN  \/ code < range[1] /\ right' = (mid - 1) % Size /\ UNCHANGED <<left, outcome>>
         \/ code > range[2] /\ left' = (mid + 1) % Size /\ UNCHANGED <<right, outcome>>
         \/ code \in range[1] .. range[2] /\ outcome' = "true" /\ UNCHANGED <<left, right>>
  /\ UNCHANGED <<intervals, code>>

CompareOutside ==
  /\ outcome = "searching" /\ left <= right /\ mid >= Len(intervals)
  /\ outcome' = "outside"
  /\ UNCHANGED <<intervals, code, left, right>>

NotFound ==
  /\ outcome = "searching" /\ left > right
  /\ outcome' = "false"
  /\ UNCHANGED <<intervals, code, left, right>>

Next == Compare \/ CompareOutside \/ NotFound

Spec == Init /\ [][Next]_vars

IsMember == \E n \in DOMAIN intervals : code \in intervals[n][1] .. intervals[n][2]

(* naraku_encoding.h, code_is_cprop: the answer is whether the code has the       *)
(* property, for every code.                                                       *)
MembershipIsRight ==
  /\ outcome \in {"searching", "true", "false"}
  /\ outcome = "true" => IsMember
  /\ outcome = "false" => ~IsMember
=============================================================================
