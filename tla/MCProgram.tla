----------------------------- MODULE MCProgram -----------------------------
(* Instances of Program for TLC: patterns, compiled, and texts.              *)
EXTENDS Backtracking

MCIds == 1 .. 16
MCCaptureNums == 0 .. 2
MCPositions == 0 .. 4
MCAlphabet == <<"LF", "a", "b", "omega">>
MCAsciiCodes == {"LF", "a", "b"}
MCWordCodes == {"a", "b", "omega"}

(* A folding: b is the capital of a, and omega folds to two of them in full.  *)
MCGetCaseFold(code, is_full) ==
  CASE code = "b" -> <<"a">>
    [] code = "omega" /\ is_full -> <<"a", "a">>
    [] OTHER -> <<code>>
MCExpandCaseUnfold(codes, is_full) ==
  (IF codes[1] = "a" THEN <<[len |-> 1, code |-> "b"]>> ELSE <<>>)
    \o (IF is_full /\ Len(codes) > 1 /\ SubSeq(codes, 1, 2) = <<"a", "a">>
          THEN <<[len |-> 2, code |-> "omega"]>> ELSE <<>>)

a == C!Literal(<<"a">>)
b == C!Literal(<<"b">>)
ab == C!Literal(<<"a", "b">>)
Empty == C!Concat(<<>>)
Two(x, y) == C!Concat(<<x, y>>)
Or(x, y) == C!Alt(<<x, y>>)
Cap(n, x) == C!Capture(n, x)

Greedy(x, min, max) == C!Quantifier(x, min, TRUE, max, TRUE)
Star(x) == C!Quantifier(x, 0, FALSE, 0, TRUE)
LazyStar(x) == C!Quantifier(x, 0, FALSE, 0, FALSE)
Plus(x) == C!Quantifier(x, 1, FALSE, 0, TRUE)
Question(x) == Greedy(x, 0, 1)
Lazy(x, min, max) == C!Quantifier(x, min, TRUE, max, FALSE)

Quantified(x) ==
  <<Star(x), LazyStar(x), Plus(x), Greedy(x, 1, 2), Lazy(x, 0, 2)>>

(* The operator applied to every pair, and to every member; TLC evaluates a   *)
(* concatenation once.                                                       *)
Product(Op(_, _), xs, ys) ==
  [i \in 1 .. Len(xs) * Len(ys) |->
     Op(xs[((i - 1) \div Len(ys)) + 1], ys[((i - 1) % Len(ys)) + 1])]
    \o <<>>
Each(Op(_), xs) == [i \in DOMAIN xs |-> Op(xs[i])] \o <<>>

(* Loops whose bodies can match nothing, in several ways and with captures.  *)
Parts == <<a, Empty, Star(a), Cap(2, Question(b))>>
Loops ==
  LET ThenB(x) == Two(x, b)
      InLoops(x) == Each(ThenB, Quantified(Cap(1, x)))
  IN  FlattenSeq(Each(InLoops, Product(Or, Parts, Parts) \o Product(Two, Parts, Parts)))

(* The other nodes: assertions between loops and letters, \K, classes, dots,  *)
(* a letter beyond ASCII, three alternatives, and an operator on a group.    *)
Is(type) == C!AssertionNode(type)
Omega == C!Literal(<<"omega">>)
Others ==
  LET Around(type) == C!Concat(<<C!Dot(TRUE), Is(type), Question(C!Dot(TRUE))>>)
      Alone(type) == Cap(1, C!Concat(<<Star(Cap(2, a)), Is(type), LazyStar(C!Dot(FALSE))>>))
      types == <<"begin_of_line", "end_of_line", "begin_of_string", "end_of_string_strict",
                 "end_of_string_loose", "begin_of_matching", "word_boundary",
                 "non_word_boundary", "ascii_word_boundary", "non_ascii_word_boundary">>
  IN  Each(Around, types) \o Each(Alone, types) \o
      << Two(a, C!KeepNode), C!Concat(<<Question(Two(a, C!KeepNode)), Or(ab, b)>>),
         Star(Or(C!KeepNode, Cap(1, a))), Star(Is("begin_of_string")),
         Two(C!CharClass({"a", "omega"}), Plus(C!CharClass({"b", "LF"}))),
         Two(Omega, Star(Or(Omega, ab))), C!Alt(<<ab, Cap(1, a), Cap(2, Empty)>>),
         Star(C!Group(C!Alt(<<Omega, Cap(1, Empty), a>>))), Empty, ab >>

(* Literals and classes that ignore case, in loops and next to each other.   *)
Sharp == C!ExpandedClass({"omega"}, <<<<"a", "a">>>>)
Folding ==
  << C!IgnoreCase(<<"omega">>), Star(Cap(1, C!IgnoreCase(<<"a">>))),
     Cap(1, C!IgnoreCase(<<"b", "omega">>)), Star(Cap(1, C!IgnoreCase(<<"a", "a">>))),
     Two(C!IgnoreCase(<<"a", "b", "a">>), Question(b)), Plus(Cap(1, Sharp)),
     Two(Sharp, C!IgnoreCase(<<"omega">>)), Or(Two(Sharp, Sharp), Cap(2, C!IgnoreCase(<<"b">>))),
     Star(Cap(1, C!ExpandedClass({"b"}, <<<<"a", "LF">>, <<"a", "a">>>>))) >>

MCPatterns == Loops \o Others \o Folding
MCProgramOf(tree) == C!Compiled(tree)

Argument(t, n) == [text |-> t, start_pos |-> n]
MCArguments ==
  { Argument(<<>>, 0), Argument(<<"b">>, 0), Argument(<<"a", "a", "b">>, 0),
    Argument(<<"b", "a", "b">>, 1), Argument(<<"a", "b", "LF">>, 0),
    Argument(<<"LF", "a", "LF">>, 1), Argument(<<"omega", "a", "b">>, 1),
    Argument(<<"omega", "omega">>, 0), Argument(<<"b", "omega", "a">>, 0), Argument(<<"a">>, 3), Argument(<<"omega">>, 2) }
=============================================================================
