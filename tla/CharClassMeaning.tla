-------------------------- MODULE CharClassMeaning --------------------------
(***************************************************************************)
(* What a class of a pattern means, against which CharClassBuilder is      *)
(* checked: a predicate on codes, with no ranges and no steps, and in      *)
(* strict mode a predicate on what codes fold to.                          *)
(***************************************************************************)
EXTENDS CharClassBuilder

Unions(top) == IF top.type = "char_class" THEN top.unions ELSE <<<<top>>>>
IsNegated(top) == top.type = "char_class" /\ ~top.is_positive

ItemHas(item, code) ==
  IF item.type = "range" THEN code \in item.first .. item.last
  ELSE item.is_positive =
         /\ \E n \in DOMAIN CpropRanges[item.cprop] :
              code \in CpropRanges[item.cprop][n].first .. CpropRanges[item.cprop][n].last
         /\ item.is_ascii_only => code <= ASCII_MAX

RECURSIVE Has(_, _, _), HasFolded(_, _, _), Fails(_, _)

Has(unions, is_positive, code) ==
  is_positive =
    /\ unions # <<>>
    /\ \A u \in DOMAIN unions : \E i \in DOMAIN unions[u] :
         LET item == unions[u][i]
         IN  IF item.type = "nested_char_class" THEN Has(item.unions, item.is_positive, code)
             ELSE ItemHas(item, code)

(* What a code folds to, and the codes that fold to a string of codes; that   *)
(* what was reported is every folding is IterationReportsFolds.               *)
FoldOf(code) ==
  LET found == {reported[n].codes : n \in {m \in DOMAIN reported : reported[m].code = code}}
  IN  IF found = {} THEN <<code>> ELSE CHOOSE codes \in found : TRUE
Sources(codes) ==
  {reported[n].code : n \in {m \in DOMAIN reported : reported[m].codes = codes}}
    \cup (IF Len(codes) = 1 /\ FoldOf(codes[1]) = codes THEN {codes[1]} ELSE {})

HasFolded(unions, is_positive, codes) ==
  is_positive =
    /\ unions # <<>>
    /\ \A u \in DOMAIN unions : \E i \in DOMAIN unions[u] :
         LET item == unions[u][i]
         IN  IF item.type = "nested_char_class" THEN HasFolded(item.unions, item.is_positive, codes)
             ELSE \E c \in Sources(codes) : ItemHas(item, c)

Expanding == {reported[n].codes : n \in {m \in DOMAIN reported : Len(reported[m].codes) > 1}}

(* What is negated must not hold a string.                                   *)
Fails(unions, is_positive) ==
  \/ ~is_positive /\ \E codes \in Expanding : HasFolded(unions, TRUE, codes)
  \/ \E u \in DOMAIN unions : \E i \in DOMAIN unions[u] :
       LET item == unions[u][i]
       IN  item.type = "nested_char_class" /\ Fails(item.unions, item.is_positive)

(* The codes held by an item other than \w, [:ascii:] and the like: IsTracked  *)
(* takes a nested class for one such item, IsWritten looks into it.           *)
IsTracked(code) ==
  \A u \in DOMAIN Unions(node) : \E i \in DOMAIN Unions(node)[u] :
    LET item == Unions(node)[u][i]
    IN  IF item.type = "nested_char_class" THEN Has(item.unions, item.is_positive, code)
        ELSE ~IsUntracked(item) /\ ItemHas(item, code)

RECURSIVE IsWrittenIn(_, _)
IsWrittenIn(unions, code) ==
  \A u \in DOMAIN unions : \E i \in DOMAIN unions[u] :
    LET item == unions[u][i]
    IN  CASE item.type = "nested_char_class" /\ item.is_positive -> IsWrittenIn(item.unions, code)
          [] item.type = "nested_char_class" /\ ~item.is_positive -> Has(item.unions, FALSE, code)
          [] OTHER -> ~IsUntracked(item) /\ ItemHas(item, code)
IsWritten(code) == IsWrittenIn(Unions(node), code)

(* The codes of the class that share their folding with a code.               *)
Sharing(code) == {c \in Sources(FoldOf(code)) : Has(Unions(node), TRUE, c)}
Crosses(c, code) == (c <= ASCII_MAX) # (code <= ASCII_MAX)

(* Ignoring case each of them stands for it, but across the end of ASCII only *)
(* if it is itself written (docs/ja/onigmo_bugs.md:183).  The builder asks this *)
(* of the folding of both, of nested classes as a whole, and only for a code  *)
(* beyond ASCII with a folding in ASCII.  Where the two disagree both answers *)
(* are left open: what certainly stands for a code does so in either reading, *)
(* what does not possibly stand for it in neither.                            *)
CertainlyStandsFor(c, code) == Crosses(c, code) => IsWritten(c) /\ FoldOf(code) = <<c>>
PossiblyStandsFor(c, code) ==
  Crosses(c, code) => (code > ASCII_MAX /\ FoldOf(code)[1] <= ASCII_MAX => IsTracked(c))

ExpectedStrings ==
  IF ~node.is_ignore_case THEN {}
  ELSE IF node.is_strict THEN {s \in Expanding : HasFolded(Unions(node), ~IsNegated(node), s)}
  ELSE {s \in Expanding : node.is_positive /\ \E c \in Sources(s) : Has(Unions(node), TRUE, c)}

(* Whether a class holds a code, by what stands for it.                       *)
Holds(code, Stands(_, _)) ==
  LET codes == FoldOf(code)
      is_matched == \/ Has(Unions(node), TRUE, code)
                    \/ /\ Len(codes) > 1 => node.is_positive
                       /\ \E c \in Sharing(code) : Stands(c, code)
  IN  CASE ~node.is_ignore_case -> Has(Unions(node), ~IsNegated(node), code)
        [] node.is_ignore_case /\ node.is_strict -> HasFolded(Unions(node), ~IsNegated(node), codes)
        [] OTHER -> is_matched # IsNegated(node)

(* The codes at which what a class holds, or what was built, can change.      *)
RECURSIVE Changes(_)
ChangesOf(ranges) == UNION {{ranges[n].first, ranges[n].last + 1} : n \in DOMAIN ranges}
Changes(unions) ==
  UNION UNION
    {{LET item == unions[u][i]
      IN  CASE item.type = "range" -> {item.first, item.last + 1}
            [] item.type = "nested_char_class" -> Changes(item.unions)
            [] OTHER -> ChangesOf(CpropRanges[item.cprop])
      : i \in DOMAIN unions[u]} : u \in DOMAIN unions}
Probes ==
  LET folds == UNION {{reported[n].code, reported[n].codes[1]} : n \in DOMAIN reported}
      probes == {0, ASCII_MAX + 1} \cup Changes(Unions(node)) \cup ChangesOf(built.ranges)
                  \cup folds \cup {c + 1 : c \in folds}
  IN  probes \ {UNICODE_MAX + 1}

(* char_class_builder.rb and its tests: a class holds the codes and strings   *)
(* its items, intersections and negations say; ignoring case, in strict mode  *)
(* all operations are on what codes fold to and a string cannot be negated,   *)
(* and else the result is closed under folding, but for codes beyond ASCII    *)
(* that would be added for a member of \w alone.  Its ranges are sorted and    *)
(* apart, as the binary searches of CharClass need them.  A code of which the *)
(* builder and docs/ja/onigmo_bugs.md:183 disagree, as of the long s in [S],  *)
(* may be held or not.                                                        *)
ClassStandsForNode ==
  node # Unbuilt =>
    /\ built.failed = (node.is_strict /\ node.is_ignore_case /\ Fails(Unions(node), ~IsNegated(node)))
    /\ ~built.failed =>
         /\ built.strings = ExpectedStrings
         /\ \A code \in Probes :
              Includes(built.ranges, code) \in {Holds(code, CertainlyStandsFor), Holds(code, PossiblyStandsFor)}
         /\ \A n \in 1 .. Len(built.ranges) - 1 : built.ranges[n].last + 1 < built.ranges[n + 1].first
=============================================================================
