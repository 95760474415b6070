----------------------------- MODULE MCCaseFold -----------------------------
(***************************************************************************)
(* The items of the Unicode tables that have more than a simple folding,   *)
(* the codes that share a folding with them, and classes of these.         *)
(***************************************************************************)
EXTENDS CharClassMeaning

Both == {"fold", "fold_full"}
Item(from, types, to, special) == [from |-> from, types |-> types, to |-> to, special |-> special]

SomeItems == <<
  Item(73, Both, <<105>>, <<>>),                              \* I
  Item(83, Both, <<115>>, <<>>),                              \* S
  Item(223, {"fold_full"}, <<115, 115>>, <<>>),               \* sharp s
  Item(304, {"fold_full"}, <<105, 775>>, <<>>),               \* I with dot above
  Item(383, Both, <<115>>, <<>>),                             \* long s
  Item(837, Both, <<953>>, <<>>),                             \* combining iota
  Item(912, {"fold_full"}, <<953, 776, 769>>, <<>>),          \* iota with dialytika and tonos
  Item(921, Both, <<953>>, <<>>),                             \* capital iota
  Item(7838, {"fold"}, <<223>>, <<115, 115>>),                \* capital sharp s
  Item(8126, Both, <<953>>, <<>>),                            \* prosgegrammeni
  Item(8147, {"fold"}, <<912>>, <<953, 776, 769>>),           \* iota with dialytika and oxia
  Item(64261, {"fold"}, <<64262>>, <<115, 116>>),             \* ligature long s t
  Item(64262, {"fold_full"}, <<115, 116>>, <<>>) >>           \* ligature st

SomeCodes == {73, 304, 775, 83, 116, 7838, 64261, 8147, 776, 769, 921}

-----------------------------------------------------------------------------

SomeRanges ==
  [Word |-> <<Interval(48, 57), Interval(65, 90), Interval(95, 95), Interval(97, 122),
              Interval(223, 223), Interval(304, 305), Interval(383, 383), Interval(7838, 7838)>>,
   Upper |-> <<Interval(65, 90), Interval(304, 304), Interval(7838, 7838)>>,
   ASCII |-> <<Interval(0, 127)>>]

Between(first, last) == [type |-> "range", first |-> first, last |-> last]
One(code) == Between(code, code)
Property(type, cprop, is_ascii_only, is_positive) ==
  [type |-> type, cprop |-> cprop, is_ascii_only |-> is_ascii_only, is_positive |-> is_positive]
Nested(unions, is_positive) ==
  [type |-> "nested_char_class", unions |-> unions, is_positive |-> is_positive]

Ranges ==
  {One(0), One(73), One(83), One(223), One(383), Between(1, 82), Between(84, 127),
   Between(128, UNICODE_MAX)}
Types ==
  {Property("char_type", "Word", FALSE, TRUE), Property("char_type", "Word", TRUE, FALSE),
   Property("char_prop", "ASCII", FALSE, FALSE), Property("posix_char_class", "Word", FALSE, FALSE),
   Property("posix_char_class", "Upper", TRUE, TRUE)}
Items == Ranges \cup Types
Few == {One(83), One(223), Between(84, 127), Property("char_type", "Word", FALSE, TRUE)}

(* One item or two together, two intersected, and nested negations.          *)
SomeUnions ==
  {<<<<x>>>> : x \in Items} \cup {<<<<x, y>>>> : x, y \in Items} \cup {<<<<x>>, <<y>>>> : x, y \in Items}
    \cup {<<<<x>>, <<Nested(<<<<y>>>>, FALSE)>>>> : x, y \in Few}
    \cup {<<<<Nested(<<<<x>>>>, FALSE), Nested(<<<<y>>, <<z>>>>, TRUE)>>>> : x, y, z \in Few}
    \cup {<<<<x, y, z>>>> : x, y, z \in Few}

Classes ==
  [type : {"char_class"}, unions : SomeUnions, is_positive : BOOLEAN,
   is_strict : BOOLEAN, is_ignore_case : {TRUE}]
    \cup [type : {"char_class"}, unions : SomeUnions, is_positive : BOOLEAN,
          is_strict : {FALSE}, is_ignore_case : {FALSE}]

(* \d or \p{...} by itself.                                                  *)
Alone ==
  {[type |-> t.type, cprop |-> t.cprop, is_ascii_only |-> t.is_ascii_only,
    is_positive |-> t.is_positive, is_strict |-> FALSE, is_ignore_case |-> i] :
     t \in {u \in Types : u.type # "posix_char_class"}, i \in BOOLEAN}

MCNodes == Classes \cup Alone
=============================================================================
