----------------------------- MODULE ParserTree -----------------------------
(***************************************************************************)
(* What the tree nk_parser_parse builds must say about the pattern it was  *)
(* built from.  The definitions recurse over the tree, so they are kept    *)
(* apart from the machine.                                                 *)
(***************************************************************************)
EXTENDS Parser, SequencesExt

IsOptionRest(n) == n.type = "GROUP" /\ n.text[1].kind = "OPTION"

Join(parts) ==
  FlattenSeq([i \in DOMAIN parts |-> IF i = 1 THEN parts[i] ELSE <<"ALT">> \o parts[i]])

(* The token kinds of the pattern text a tree stands for.                   *)
RECURSIVE Unparse(_)
Unparse(n) ==
  LET parts == [i \in DOMAIN n.kids |-> Unparse(n.kids[i])]
      kinds == [i \in DOMAIN n.text |-> n.text[i].kind]
  IN  CASE n.type = "ALT" -> Join(parts)
        [] n.type = "CONCAT" -> FlattenSeq(parts)
        [] n.type = "QUANTIFIER" -> Append(parts[1], "QUANTIFIER")
        [] OTHER -> kinds \o (IF n.kids = <<>> THEN <<>>
                              ELSE IF IsOptionRest(n) THEN parts[1]
                              ELSE Join(parts) \o <<"GROUP_CLOSE">>)

(* The precedence of the grammar: alternation binds weakest, then           *)
(* concatenation, then repetition; (?i) takes all that follows it.           *)
Precedence(n) ==
  LET Types(S) == {n.kids[i].type : i \in S}
      all == DOMAIN n.kids
      OptionRests == {i \in all : IsOptionRest(n.kids[i])}
  IN  CASE n.type = "ALT" -> Len(n.kids) >= 2 /\ "ALT" \notin Types(all)
        [] n.type = "CONCAT" ->
             /\ Len(n.kids) # 1
             /\ Types(all) \cap {"ALT", "CONCAT"} = {}
             /\ OptionRests \subseteq {Len(n.kids)}
             /\ \A i \in all \ {1} : Types({i - 1, i}) # {"LITERAL"}
        [] n.type = "QUANTIFIER" ->
             Types(all) \cap {"ALT", "CONCAT"} = {} /\ OptionRests = {}
        [] n.type = "CONDITIONAL" -> "ALT" \notin Types(all)
        [] OTHER -> TRUE

(* The numbers of the captures of a tree, in the order they open.           *)
RECURSIVE CaptureNums(_)
CaptureNums(n) ==
  (IF n.type = "CAPTURE" THEN <<n.num>> ELSE <<>>)
    \o FlattenSeq([i \in DOMAIN n.kids |-> CaptureNums(n.kids[i])])

(* A tree was built under the options in force where it stands: those of    *)
(* the innermost GROUP around it.                                           *)
RECURSIVE UsesOptions(_, _)
UsesOptions(n, opts) ==
  LET inner == IF n.type = "GROUP" THEN n.opts ELSE opts IN
    /\ \A i \in DOMAIN n.text : n.text[i].opts = opts
    /\ \A i \in DOMAIN n.kids : UsesOptions(n.kids[i], inner)

-----------------------------------------------------------------------------
(* Properties.                                                               *)

(* The tree a function returns stands for exactly the tokens its span        *)
(* covers, in their order, and respects the precedence of the operators:     *)
(* merging literals, unwrapping single children and taking spans from the    *)
(* children lose, duplicate or regroup nothing.                              *)
TreeStandsForPattern ==
  control.op = "ok" =>
    LET n == control.node IN
      /\ Unparse(n) = SubSeq(input, n.lo + 1, n.hi)
      /\ Precedence(n)

(* Every node of a result carries the options of its place, also literals    *)
(* that were merged, and nodes after an option group that has closed.        *)
ResultUsesScopedOptions ==
  result # NoNode => UsesOptions(result, InitialOptions)

(* In the result of the only call, the captures are counted by               *)
(* num_capture_groups, and unnamed ones carry their place in the order in    *)
(* which groups open, also where a conditional or quantifier encloses them.  *)
CapturesNumberedInOrder ==
  result # NoNode /\ calls = 1 =>
    LET nums == CaptureNums(result) IN
      /\ Len(nums) = num_capture_groups
      /\ \A i \in DOMAIN nums : nums[i] \in {0, i}
      /\ (~has_named_captures) = (\A i \in DOMAIN nums : nums[i] = i)
=============================================================================
