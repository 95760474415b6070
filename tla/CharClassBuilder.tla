-------------------------- MODULE CharClassBuilder --------------------------
(***************************************************************************)
(* CharClassBuilder of src/ruby-prototype's char_class_builder.rb: the set *)
(* of codes, and the strings, that a class of the pattern stands for.      *)
(* What folds to what is what an iteration of CaseFold has reported.       *)
(* Functions over nodes are recursive, so this module is for TLC only.     *)
(***************************************************************************)
EXTENDS CaseFold, CharRanges

CONSTANTS
  CpropRanges,   \* the ranges of each property, by its name
  SomeNodes      \* :char_class nodes: unions of items, is_positive, is_strict and
                 \* is_ignore_case; :char_type and :char_prop nodes, which are items

VARIABLES
  node,          \* the node that was built, Unbuilt before
  built          \* what build returned

builder_vars == <<node, built>>

Unbuilt == [type |-> "char_class", unions |-> <<>>, is_positive |-> TRUE, is_strict |-> FALSE, is_ignore_case |-> FALSE]

(* What a function returns: ranges, strings that stand for several codes, the *)
(* ranges whose ASCII codes are expanded beyond ASCII, or an error.          *)
State(ranges, strings, tracking) ==
  [ranges |-> ranges, strings |-> strings, tracking |-> tracking, failed |-> FALSE]
EmptyState == State(<<>>, {}, <<>>)
Raised == [EmptyState EXCEPT !.failed = TRUE]

UnionStates(left, right) ==
  IF left.failed \/ right.failed THEN Raised
  ELSE State(Union(left.ranges, right.ranges), left.strings \cup right.strings,
             Union(left.tracking, right.tracking))
IntersectStates(left, right) ==
  IF left.failed \/ right.failed THEN Raised
  ELSE State(Intersect(left.ranges, right.ranges), left.strings \cap right.strings,
             Intersect(left.tracking, right.tracking))
NegateState(state) ==
  IF state.failed THEN Raised ELSE State(Negate(state.ranges), {}, Negate(state.tracking))

TracksAscii(top) == top.is_ignore_case /\ ~top.is_strict

(* Variant: an expansion beyond ASCII does not ask where its code came from. *)
NeverHeldBack(entry, state, top) == FALSE

IsHeldBack(entry, state, top) ==
  /\ entry.code > ASCII_MAX /\ entry.codes[1] <= ASCII_MAX
  /\ TracksAscii(top) /\ ~Includes(state.tracking, entry.codes[1])

(* apply_case_fold: to the codes, what they fold to, then all that folds to   *)
(* one of these.                                                             *)
IsSingle(entry) == Len(entry.codes) = 1

FoldedStrings(state) ==
  {reported[n].codes : n \in {m \in DOMAIN reported :
     ~IsSingle(reported[m]) /\ Includes(state.ranges, reported[m].code)}}

WithFolded(state) ==
  LET AddFolded(ranges, entry) ==
        IF IsSingle(entry) /\ Includes(state.ranges, entry.code)
          THEN Add(ranges, entry.codes[1], entry.codes[1]) ELSE ranges
  IN  FoldLeft(AddFolded, state.ranges, reported)

WithUnfolded(bases, strings, state, top) ==
  LET IsUnfolding(entry) ==
        IF IsSingle(entry) THEN ~IsHeldBack(entry, state, top) /\ Includes(bases, entry.codes[1])
        ELSE entry.codes \in strings
      AddUnfolding(ranges, entry) ==
        IF IsUnfolding(entry) THEN Add(ranges, entry.code, entry.code) ELSE ranges
  IN  State(FoldLeft(AddUnfolding, bases, reported), strings, state.tracking)

ApplyCaseFold(state, top, allow_multi_expand) ==
  IF state.failed THEN Raised
  ELSE WithUnfolded(WithFolded(state),
                    state.strings \cup (IF allow_multi_expand THEN FoldedStrings(state) ELSE {}),
                    state, top)

(* In strict mode every operand is folded, in the other only the whole.      *)
FoldStrictly(state, top) ==
  IF top.is_strict /\ top.is_ignore_case THEN ApplyCaseFold(state, top, TRUE) ELSE state

(* \d, \p{...} and [:...:]: a property, perhaps within ASCII, perhaps not.    *)
WithinAscii(ranges) == Intersect(ranges, <<Interval(0, ASCII_MAX)>>)
Signed(ranges, is_positive) == IF is_positive THEN ranges ELSE Negate(ranges)
RangesOf(item) ==
  LET all == CharClass(CpropRanges[item.cprop])
  IN  Signed(IF item.is_ascii_only THEN WithinAscii(all) ELSE all, item.is_positive)

IsUntracked(item) ==
  CASE item.type = "posix_char_class" -> item.is_ascii_only \/ item.cprop \in {"ASCII", "Word"}
    [] item.type = "char_prop" -> CpropRanges[item.cprop] = <<Interval(0, ASCII_MAX)>>
    [] item.type = "char_type" -> item.cprop = "Word"
    [] OTHER -> FALSE

RECURSIVE BuildCore(_, _, _)

Tracked(state, item, top) ==
  [state EXCEPT !.tracking = IF TracksAscii(top) /\ ~IsUntracked(item) THEN state.ranges ELSE <<>>]

BuildItem(item, top) ==
  Tracked(CASE item.type = "range" -> State(<<Interval(item.first, item.last)>>, {}, <<>>)
            [] item.type = "nested_char_class" -> BuildCore(item.unions, item.is_positive, top)
            [] OTHER -> State(RangesOf(item), {}, <<>>),
          item, top)

BuildUnion(members, top) ==
  FoldLeft(LAMBDA state, item : UnionStates(state, BuildItem(item, top)), EmptyState, members)

(* build_char_class_core: unions, intersected, and negated.                  *)
IntersectAll(states, top) ==
  LET And(state, next) == IntersectStates(FoldStrictly(state, top), FoldStrictly(next, top))
  IN  IF states = <<>> THEN EmptyState ELSE FoldLeft(And, Head(states), Tail(states))

NegateUnlessExpanded(state) == IF state.strings # {} THEN Raised ELSE NegateState(state)

Closed(whole, is_positive, top) ==
  FoldStrictly(IF is_positive THEN whole ELSE NegateUnlessExpanded(FoldStrictly(whole, top)), top)

BuildCore(unions, is_positive, top) ==
  Closed(IntersectAll([i \in DOMAIN unions |-> BuildUnion(unions[i], top)], top), is_positive, top)

(* build: a lone \d or \p{...} is an item.                                   *)
FoldWhole(state, top) ==
  IF ~TracksAscii(top) THEN state
  ELSE IF top.type = "char_class" /\ ~top.is_positive
         THEN NegateState(ApplyCaseFold(state, top, FALSE))
  ELSE ApplyCaseFold(state, top, top.is_positive)

Build(top) ==
  FoldWhole(IF top.type = "char_class" THEN BuildCore(top.unions, TracksAscii(top) \/ top.is_positive, top)
            ELSE BuildItem(top, top), top)

-----------------------------------------------------------------------------

BuilderInit == FoldInit /\ node = Unbuilt /\ built = EmptyState

BuildClass ==
  /\ stage = "iterated" /\ node = Unbuilt
  /\ \E top \in SomeNodes : node' = top /\ built' = Build(top)
  /\ UNCHANGED fold_vars

BuilderNext == (FoldNext /\ UNCHANGED builder_vars) \/ BuildClass

BuilderSpec == BuilderInit /\ [][BuilderNext]_<<fold_vars, builder_vars>>

=============================================================================
