---------------------------- MODULE CharClassTree ----------------------------
(***************************************************************************)
(* What the class parse_char_class_intersection builds must say about the  *)
(* pattern.  The definitions recurse over the class, so they are kept      *)
(* apart from the machine.                                                 *)
(***************************************************************************)
EXTENDS CharClassParser, SequencesExt

(* The characters symbols stand for; a continuation stands for nothing.      *)
Meaning(symbol) ==
  CASE symbol = "CONTINUE" -> <<>>
    [] symbol \in {"ESC", "UESC", "HEX"} -> <<Characters[Code(symbol)]>>
    [] OTHER -> <<symbol>>

Text(lo, hi) == FlattenSeq([i \in 1 .. hi - lo |-> Meaning(pattern[lo + i])])

(* The text of an item, a union and a class.                                 *)
RECURSIVE ItemText(_), ClassText(_)
ItemText(item) ==
  CASE item.type = "CODE" -> <<Characters[item.codes[1]]>>
    [] item.type = "RANGE" -> <<Characters[item.codes[1]], "-", Characters[item.codes[2]]>>
    [] item.type = "CHAR_TYPE" -> <<"TYPE">>
    [] item.type = "POSIX_CHAR_CLASS" -> <<"POSIX">>
    [] item.type = "NESTED" -> ClassText(item)

UnionText(u) == FlattenSeq([i \in DOMAIN u.items |-> ItemText(u.items[i])])

ClassText(class) ==
  (IF class.positive THEN <<"[">> ELSE <<"[", "^">>)
    \o FlattenSeq([i \in DOMAIN class.parts |->
         (IF i = 1 THEN <<>> ELSE <<"&", "&">>) \o UnionText(class.parts[i])])
    \o <<"]">>

(* All the classes of a class: itself and those nested in it.                *)
RECURSIVE ClassesOf(_)
ClassesOf(class) ==
  {class} \cup
    UNION {ClassesOf(item) : item \in {it \in UNION {ToSet(u.items) : u \in ToSet(class.parts)} :
                                         it.type = "NESTED"}}

Succeeded == stack = <<>> /\ control.op = "ok"

IsBareHyphen(at) == pattern[at + 1] = "-"

-----------------------------------------------------------------------------
(* Properties.                                                               *)

(* Every item, union and class stands for exactly the text its span covers:  *)
(* the hyphens and ampersands the lexer looks ahead at, the ranges built     *)
(* from two items and the items put in a growing array are neither lost,     *)
(* doubled nor misplaced, and the span reported to the user is the item's.   *)
PartsStandForText ==
  /\ control.op = "ok" /\ stack # <<>> =>
       LET part == control.value IN
         CASE Top.fn = "union" -> ItemText(part) = Text(part.lo, part.hi)
           [] Top.fn = "intersection" ->
                /\ UnionText(part) = Text(part.lo, part.hi)
                /\ \A item \in ToSet(part.items) : ItemText(item) = Text(item.lo, item.hi)
           [] Top.fn = "item" -> ClassText(part) = Text(Top.lo, pos)
  /\ Succeeded => ClassText(control.value) = Text(0, pos)

(* The hyphens of an item that stand for themselves: where, and the warning  *)
(* each calls for.                                                           *)
HyphenWarnings(item, is_first) ==
  LET Warn(kind, at) == {Warning(kind, at, at + 1)}
      IsLast(at) == pattern[at + 2] = "]"
      begin == item.lo
      end == item.hi - 1
  IN  CASE item.type = "RANGE" ->
             (CASE ~IsBareHyphen(begin) -> {}
                [] IsBareHyphen(begin) /\ is_first -> Warn("HYPHEN_AT_BEGINNING", begin)
                [] OTHER -> Warn("HYPHEN", begin))
             \cup (CASE ~IsBareHyphen(end) -> {}
                     [] IsBareHyphen(end) /\ IsLast(end) -> Warn("HYPHEN_AT_END", end)
                     [] OTHER -> Warn("HYPHEN", end))
        [] item.type = "CODE" /\ IsBareHyphen(begin) /\ ~is_first /\ ~IsLast(begin) ->
             Warn("HYPHEN", begin)
        [] OTHER -> {}

BracketWarnings(item) ==
  IF item.type \in {"CODE", "RANGE"} /\ pattern[item.lo + 1] = "]"
    THEN {Warning("BRACKET", item.lo, item.lo + 1)}
    ELSE {}

ClassWarnings(class) ==
  UNION {UNION {HyphenWarnings(class.parts[u].items[i], u = 1 /\ i = 1)
                  \cup BracketWarnings(class.parts[u].items[i]) :
                  i \in DOMAIN class.parts[u].items} : u \in DOMAIN class.parts}

(* The user is warned exactly once of each hyphen and bracket that stands    *)
(* for itself where it could have been meant as an operator: first in a      *)
(* class but beginning a range, last but ending one, or between items.  The  *)
(* lexer warns of some, the parser of the others.                            *)
WarnedOnce ==
  Succeeded =>
    /\ ToSet(warnings) = UNION {ClassWarnings(c) : c \in ClassesOf(control.value)}
    /\ IsInjective(warnings)
=============================================================================
